---- MODULE Spec2Model ----
(***************************************************************************)
(* Model of the PR reporting tool: the snapshot store of db_manager.py     *)
(* (table pr_stats, keyed by (repo_name, date)) and the open-request       *)
(* aggregation of pr_reporter.py (PRReporter.get_repo_stats and            *)
(* PRReporter.generate_report), the comparison lookup and the schema       *)
(* migration, and the closed-request analysis of closed_pr_analyzer.py.    *)
(*                                                                         *)
(* Time is counted in ticks, TicksPerDay ticks to a day, so that the       *)
(* whole-day truncation of timedelta.days and of strftime('%Y-%m-%d') is   *)
(* visible.  A date string 'YYYY-MM-DD' is modelled by its day number;     *)
(* the text order of such strings is the order of the day numbers.         *)
(*                                                                         *)
(* A Python number is a record [k, n, d]: its type (int or float) and its  *)
(* value n/d in lowest terms.  A float is treated as the exact rational    *)
(* it was computed from.                                                   *)
(***************************************************************************)
EXTENDS Integers, Sequences, FiniteSets, TLC

VARIABLES
    now,        \* the clock, in ticks (datetime.now(timezone.utc))
    github,     \* the remote side: for each repository its open pull requests
    cfg,        \* the fields PRReporter.__init__ sets on the reporter
    db,         \* the rows of table pr_stats
    columns,    \* the columns of table pr_stats
    saved,      \* history: for each key, the snapshot last passed to save_stats
    last,       \* the last finished call: its arguments, outcome and effects
    gr          \* the position of a running generate_report

storeVars == <<db, columns, saved>>
envVars   == <<now, github, cfg>>
vars      == <<now, github, cfg, db, columns, saved, last, gr>>

----------------------------------------------------------------------------
(* Bounds of the model *)

TicksPerDay   == 2      \* resolution of the clock
MaxAgeTicks   == 4      \* a pull request was created at most this long ago
MaxComments   == 1      \* largest comment count of a pull request
MaxPRs        == 2      \* longest list of open pull requests
MaxDay        == 1      \* last day number a store call is made with
MaxMinAge     == 1      \* largest configured minimum age, in days
MaxStaleDays  == 1      \* largest configured no-recent-activity threshold
NumSnapshots  == 2      \* number of distinct snapshots the store calls use
MaxCompare    == 1      \* largest configured number of comparison days
WindowDays    == 1      \* the days the closed-request analysis looks back
MaxMetric     == 3      \* largest metric value handed to a comparison

----------------------------------------------------------------------------
(* Optional values: None and a present value *)

None    == <<>>
Some(x) == <<x>>

----------------------------------------------------------------------------
(* Python numbers *)

Abs(x) == IF x < 0 THEN -x ELSE x

RECURSIVE Gcd(_, _)
Gcd(a, b) == IF b = 0 THEN a ELSE Gcd(b, a % b)

PyInt(i) == [k |-> "int", n |-> i, d |-> 1]

\* the float of value num/den (den > 0)
PyFloat(num, den) ==
    LET g == Gcd(Abs(num), den)
    IN  IF num = 0 THEN [k |-> "float", n |-> 0, d |-> 1]
        ELSE [k |-> "float", n |-> num \div g, d |-> den \div g]

\* float(x)
ToFloat(x) == [k |-> "float", n |-> x.n, d |-> x.d]

\* int(x): truncation toward zero
ToInt(x) ==
    IF x.n >= 0 THEN PyInt(x.n \div x.d) ELSE PyInt(-((-x.n) \div x.d))

\* Python's ==, <, > on numbers compare the values, whatever the types
PyEq(a, b) == a.n * b.d = b.n * a.d
PyLt(a, b) == a.n * b.d < b.n * a.d

RECURSIVE SumSeq(_)
SumSeq(s) == IF s = <<>> THEN 0 ELSE Head(s) + SumSeq(Tail(s))

\* mutant: the mean by integer division
mean_Floored(xs) == PyInt(SumSeq(xs) \div Len(xs))

\* statistics.mean of a non-empty list of ints: the exact quotient, an int
\* when it is whole and a float otherwise
mean(xs) ==
    LET q == PyFloat(SumSeq(xs), Len(xs))
    IN  IF q.d = 1 THEN PyInt(q.n) ELSE q

----------------------------------------------------------------------------
(* The store: table pr_stats of db_manager.py *)

Repos == {"repo1", "repo2"}
Days  == 0 .. MaxDay

\* strftime('%Y-%m-%d') of a time: its calendar day
strftime(t) == t \div TicksPerDay

\* the declared type of each column (CREATE TABLE pr_stats)
ColumnType ==
    [repo_name                     |-> "TEXT",
     date                          |-> "TEXT",
     total_prs                     |-> "INTEGER",
     avg_age_days                  |-> "REAL",
     avg_age_days_excluding_oldest |-> "REAL",
     avg_comments                  |-> "REAL",
     avg_comments_with_comments    |-> "REAL",
     approved_prs                  |-> "INTEGER",
     oldest_pr_age                 |-> "INTEGER",
     oldest_pr_title               |-> "TEXT",
     prs_with_zero_comments        |-> "INTEGER"]

AllColumns == DOMAIN ColumnType

\* the nine fields of a snapshot that the table holds
PersistedFields == AllColumns \ {"repo_name", "date"}
NumericFields   == PersistedFields \ {"oldest_pr_title"}

\* what SQLite stores when a number is bound to a column of the given type:
\* an INTEGER column keeps a whole float as an integer, a REAL column keeps
\* an integer as a float
Affinity(type, v) ==
    CASE type = "INTEGER" -> IF v.d = 1 THEN PyInt(v.n) ELSE v
      [] type = "REAL"    -> ToFloat(v)
      [] OTHER            -> v

\* the row that save_stats binds to the INSERT
BoundRow(repo_name, stats, date) ==
    [c \in AllColumns |->
        CASE c = "repo_name"       -> repo_name
          [] c = "date"            -> date
          [] c = "oldest_pr_title" -> stats.oldest_pr_title
          [] OTHER                 -> Affinity(ColumnType[c], stats[c])]

\* mutant: the new row replaces every row of its repository
InsertOrReplace_PerRepository(rows, row) ==
    {r \in rows : r.repo_name # row.repo_name} \cup {row}

\* mutant: INSERT OR IGNORE, the row of an existing key is kept
InsertOrReplace_Ignore(rows, row) ==
    IF \E r \in rows : r.repo_name = row.repo_name /\ r.date = row.date
    THEN rows ELSE rows \cup {row}

\* INSERT OR REPLACE under PRIMARY KEY (repo_name, date): the row of the
\* same key, if any, is deleted and the new row inserted
InsertOrReplace(rows, row) ==
    {r \in rows : ~(r.repo_name = row.repo_name /\ r.date = row.date)}
        \cup {row}

\* DatabaseManager.save_stats: the rows of the table after the call;
\* date is None or Some(day)
save_stats(rows, repo_name, stats, date, t) ==
    LET d == IF date = None THEN strftime(t) ELSE date[1]
    IN  InsertOrReplace(rows, BoundRow(repo_name, stats, d))

\* mutant: avg_comments_with_comments is read from the column before it
RowDict_WrongIndex(row) ==
    [c \in AllColumns \ {"repo_name"} |->
        IF c \in {"date", "oldest_pr_title"} THEN row[c]
        ELSE IF c = "avg_comments_with_comments" THEN ToFloat(row.avg_comments)
        ELSE ToFloat(row[c])]

\* the dictionary the get_* methods build from a fetched row
RowDict(row) ==
    [c \in AllColumns \ {"repo_name"} |->
        IF c \in {"date", "oldest_pr_title"} THEN row[c] ELSE ToFloat(row[c])]

\* DatabaseManager.get_stats_for_date: None or Some(dictionary)
get_stats_for_date(rows, repo_name, date) ==
    LET m == {r \in rows : r.repo_name = repo_name /\ r.date = date}
    IN  IF m = {} THEN None ELSE Some(RowDict(CHOOSE r \in m : TRUE))

\* the columns _migrate_schema adds when they are missing, in its order
LaterColumns ==
    <<"avg_age_days_excluding_oldest", "avg_comments_with_comments",
      "oldest_pr_age", "oldest_pr_title", "prs_with_zero_comments">>

\* DEFAULT 0 of a numeric column, DEFAULT "" of the text column
ColumnDefault(c) ==
    IF ColumnType[c] = "TEXT" THEN "" ELSE Affinity(ColumnType[c], PyInt(0))

\* ALTER TABLE pr_stats ADD COLUMN c: an error when the table has the column,
\* otherwise every row gets the default of the column
AddColumn(t, c) ==
    IF c \in t.columns
    THEN [t EXCEPT !.raised = TRUE]
    ELSE [t EXCEPT
            !.columns = @ \cup {c},
            !.rows    = {[x \in DOMAIN r \cup {c} |->
                             IF x = c THEN ColumnDefault(c) ELSE r[x]] : r \in @}]

RECURSIVE MigrateFrom_Unchecked(_, _, _)
\* mutant: the columns are added without looking at PRAGMA table_info
MigrateFrom_Unchecked(t, listed, i) ==
    IF i > Len(LaterColumns) \/ t.raised THEN t
    ELSE MigrateFrom_Unchecked(AddColumn(t, LaterColumns[i]), listed, i + 1)

\* the five tests of _migrate_schema from the i-th on; listed is the list of
\* columns read at the start, and an error ends the method
RECURSIVE MigrateFrom(_, _, _)
MigrateFrom(t, listed, i) ==
    IF i > Len(LaterColumns) \/ t.raised THEN t
    ELSE MigrateFrom(IF LaterColumns[i] \notin listed
                     THEN AddColumn(t, LaterColumns[i]) ELSE t,
                     listed, i + 1)

\* DatabaseManager._migrate_schema over a table of the given columns and rows
migrate_schema(cols, rows) ==
    MigrateFrom([columns |-> cols, rows |-> rows, raised |-> FALSE], cols, 1)

\* the rows of one repository
RowsOf(rows, repo_name) == {r \in rows : r.repo_name = repo_name}

\* ORDER BY date DESC LIMIT 1 and ORDER BY date ASC LIMIT 1 over a non-empty
\* set of rows of one repository (their dates differ: the primary key)
LastByDate(m)  == CHOOSE r \in m : \A q \in m : q.date <= r.date
FirstByDate(m) == CHOOSE r \in m : \A q \in m : r.date <= q.date

\* ORDER BY date ASC over a set of rows of one repository
RECURSIVE AscendingByDate(_)
AscendingByDate(m) ==
    IF m = {} THEN <<>>
    ELSE <<RowDict(FirstByDate(m))>> \o AscendingByDate(m \ {FirstByDate(m)})

\* DatabaseManager.get_stats_in_date_range: the dictionaries of the rows
\* dated from the day of start_date to the day of end_date, both included
get_stats_in_date_range(rows, repo_name, start_date, end_date) ==
    AscendingByDate({r \in RowsOf(rows, repo_name) :
                        /\ strftime(start_date) <= r.date
                        /\ r.date <= strftime(end_date)})

\* mutant: the rows are ordered by date ascending
get_latest_stats_Ascending(rows, repo_name) ==
    LET m == RowsOf(rows, repo_name)
    IN  IF m = {} THEN None ELSE Some(RowDict(FirstByDate(m)))

\* DatabaseManager.get_latest_stats
get_latest_stats(rows, repo_name) ==
    LET m == RowsOf(rows, repo_name)
    IN  IF m = {} THEN None ELSE Some(RowDict(LastByDate(m)))

\* DatabaseManager.get_earliest_stats
get_earliest_stats(rows, repo_name) ==
    LET m == RowsOf(rows, repo_name)
    IN  IF m = {} THEN None ELSE Some(RowDict(FirstByDate(m)))

\* mutant: the row dated on the day of the target is taken too
get_stats_before_date_Inclusive(rows, repo_name, target_date) ==
    LET m == {r \in RowsOf(rows, repo_name) : r.date <= strftime(target_date)}
    IN  IF m = {} THEN None ELSE Some(RowDict(LastByDate(m)))

\* DatabaseManager.get_stats_before_date: target_date is a time
get_stats_before_date(rows, repo_name, target_date) ==
    LET m == {r \in RowsOf(rows, repo_name) : r.date < strftime(target_date)}
    IN  IF m = {} THEN None ELSE Some(RowDict(LastByDate(m)))

\* the loop of _get_comparison_stats that converts the numeric values of the
\* dictionary to float
FloatValues(d) ==
    [c \in DOMAIN d |->
        IF c \in NumericFields \cup {"reopened_prs"} THEN ToFloat(d[c]) ELSE d[c]]

\* PRReporter._get_comparison_stats; 'not self.compare_days' is true of None
\* and of 0
get_comparison_stats(c, rows, repo_name, t) ==
    IF c.compare_days = None \/ c.compare_days = Some(0)
    THEN None
    ELSE LET target_date == t - c.compare_days[1] * TicksPerDay
             before      == get_stats_before_date(rows, repo_name, target_date)
             stats       == IF before = None
                            THEN get_earliest_stats(rows, repo_name)
                            ELSE before
         IN  IF stats = None THEN None ELSE Some(FloatValues(stats[1]))

----------------------------------------------------------------------------
(* The presentation of a comparison: PRReporter._format_comparison.  The    *)
(* returned string is kept as its pieces: the colour code before the        *)
(* current value ("" without one), the current value, the reset code after  *)
(* it, and the previous value that follows in parentheses (None without).   *)

\* class Colors
Colors == [RED |-> "\\033[91m", GREEN |-> "\\033[92m", RESET |-> "\\033[0m"]

\* the whole number nearest to num/den, the even one of two equally near
RoundHalfEven(num, den) ==
    LET q == num \div den
        r == num % den
    IN  IF 2 * r < den THEN q
        ELSE IF 2 * r > den THEN q + 1
        ELSE IF q % 2 = 0 THEN q ELSE q + 1

\* the significant bits of a float (IEEE 754 binary64)
MantissaBits == 53

\* the number of bits of a whole number
RECURSIVE BitLength(_)
BitLength(q) == IF q = 0 THEN 0 ELSE 1 + BitLength(q \div 2)

\* the long division of r/den (r < den) in base two: what is left of r
\* after the given number of significant bits; started tells whether a
\* significant bit was already produced
RECURSIVE DoubleRemainder(_, _, _, _)
DoubleRemainder(r, den, bits, started) ==
    IF r = 0 \/ bits = 0 THEN r
    ELSE LET b    == (2 * r) \div den
             rest == (2 * r) % den
         IN  IF started \/ b = 1
             THEN DoubleRemainder(rest, den, bits - 1, TRUE)
             ELSE DoubleRemainder(rest, den, bits, FALSE)

\* where the float nearest to num/den lies: 0 when it is num/den, -1 when
\* it is below and 1 when it is above (the remainder after 53 bits is never
\* exactly a half for a numerator and a denominator of 32 bits)
DoubleSide(num, den) ==
    LET q == num \div den
        r == DoubleRemainder(num % den, den, MantissaBits - BitLength(q), q > 0)
    IN  IF r = 0 THEN 0 ELSE IF 2 * r < den THEN -1 ELSE 1

\* "{:.0f}".format(x) and "{:.1f}".format(x): the digits of the float x
\* rounded to that many decimals, kept as the number of units of the last
\* decimal.  The float is the one nearest to x.n / x.d: when x.n / x.d lies
\* half way between two units, the side of the float decides, and the even
\* unit is taken when the float is exactly half way
Format(digits, x) ==
    LET num == x.n * (IF digits = 1 THEN 10 ELSE 1)
        q   == num \div x.d
        r   == num % x.d
        s   == DoubleSide(x.n, x.d)
    IN  [digits |-> digits,
         units  |-> IF 2 * r # x.d \/ s = 0 THEN RoundHalfEven(num, x.d)
                    ELSE IF s > 0 THEN q + 1 ELSE q]

\* f"{colour}{current}{Colors.RESET} ({previous})"
Colored(colour, current, previous) ==
    [colour |-> colour, current |-> current, reset |-> Colors.RESET,
     previous |-> Some(previous)]

\* the formatted current value alone
Plain(current) ==
    [colour |-> "", current |-> current, reset |-> "", previous |-> None]

\* mutant: an equal value is shown like a larger one
format_comparison_AtLeast(current, previous, digits) ==
    LET cur  == ToFloat(current)
        prev == ToFloat(previous)
    IN  IF ~PyLt(cur, prev)
        THEN Colored(Colors.RED, Format(digits, cur), Format(digits, prev))
        ELSE Colored(Colors.GREEN, Format(digits, cur), Format(digits, prev))

\* PRReporter._format_comparison(current, previous, format_str)
format_comparison(current, previous, digits) ==
    LET cur  == ToFloat(current)
        prev == ToFloat(previous)
    IN  IF PyLt(prev, cur)
        THEN Colored(Colors.RED, Format(digits, cur), Format(digits, prev))
        ELSE IF PyLt(cur, prev)
        THEN Colored(Colors.GREEN, Format(digits, cur), Format(digits, prev))
        ELSE Plain(Format(digits, cur))

\* comparison_stats.get('reopened_prs', 0)
GetReopened(comparison_stats) ==
    IF "reopened_prs" \in DOMAIN comparison_stats
    THEN comparison_stats.reopened_prs ELSE PyInt(0)

\* the lines main prints for a repository when it has comparison stats: the
\* eight metrics, each through _format_comparison, and the comparison date
ComparedLines(stats, comparison_stats) ==
    [total_prs    |-> format_comparison(stats.total_prs,
                                        comparison_stats.total_prs, 0),
     avg_age_days |-> format_comparison(stats.avg_age_days,
                                        comparison_stats.avg_age_days, 1),
     avg_age_days_excluding_oldest |->
         format_comparison(stats.avg_age_days_excluding_oldest,
                           comparison_stats.avg_age_days_excluding_oldest, 1),
     avg_comments |-> format_comparison(stats.avg_comments,
                                        comparison_stats.avg_comments, 1),
     avg_comments_with_comments |->
         format_comparison(stats.avg_comments_with_comments,
                           comparison_stats.avg_comments_with_comments, 1),
     prs_with_zero_comments |->
         format_comparison(stats.prs_with_zero_comments,
                           comparison_stats.prs_with_zero_comments, 0),
     approved_prs |-> format_comparison(stats.approved_prs,
                                        comparison_stats.approved_prs, 0),
     reopened_prs |-> format_comparison(stats.reopened_prs,
                                        GetReopened(comparison_stats), 0),
     comparison_date |-> comparison_stats.date]

\* the body of the loop of main over the report, for one repository: the
\* comparison stats looked up when --compare was given, the compared lines
\* (None when the plain lines are printed), whether the oldest request is
\* printed, and the previous stats printed when they are not of today
MainLines(c, rows, repo_name, stats, t) ==
    LET comparison_stats == IF c.compare_days # None
                            THEN get_comparison_stats(c, rows, repo_name, t)
                            ELSE None
        prev_stats       == get_latest_stats(rows, repo_name)
    IN  [repo_name        |-> repo_name,
         stats            |-> stats,
         comparison_stats |-> comparison_stats,
         compared         |-> IF comparison_stats # None
                              THEN Some(ComparedLines(stats, comparison_stats[1]))
                              ELSE None,
         oldest_printed   |-> stats.oldest_pr_age.n > 0,
         previous         |-> IF prev_stats # None
                                  /\ prev_stats[1].date # strftime(t)
                              THEN prev_stats ELSE None]

----------------------------------------------------------------------------
(* The open-request aggregation: PRReporter.get_repo_stats *)

ReadyLabel == "Ready for Review"

\* class PRDetail
PRDetail(title, age_days, url) ==
    [title |-> title, age_days |-> age_days, url |-> url]

\* class PRStats of pr_reporter.py
PRStats(total_prs, avg_age_days, avg_age_days_excluding_oldest, avg_comments, avg_comments_with_comments, approved_prs, oldest_pr_age, oldest_pr_title, prs_with_zero_comments, reopened_prs, zero_comment_prs) ==
    [total_prs                     |-> total_prs,
     avg_age_days                  |-> avg_age_days,
     avg_age_days_excluding_oldest |-> avg_age_days_excluding_oldest,
     avg_comments                  |-> avg_comments,
     avg_comments_with_comments    |-> avg_comments_with_comments,
     approved_prs                  |-> approved_prs,
     oldest_pr_age                 |-> oldest_pr_age,
     oldest_pr_title               |-> oldest_pr_title,
     prs_with_zero_comments        |-> prs_with_zero_comments,
     reopened_prs                  |-> reopened_prs,
     zero_comment_prs              |-> zero_comment_prs]

\* the snapshot of a repository without open pull requests
EmptyStats ==
    PRStats(PyInt(0), PyInt(0), PyInt(0), PyInt(0), PyInt(0), PyInt(0),
            PyInt(0), "", PyInt(0), PyInt(0), Some(<<>>))

\* (now - created_at).days
AgeDays(pr, t) == (t - pr.created_at) \div TicksPerDay

\* any(label.name == name for label in pr.labels)
HasLabel(pr, name) == name \in pr.labels

\* any(review.state == 'APPROVED' for review in reviews)
IsApproved(reviews) == \E i \in 1 .. Len(reviews) : reviews[i] = "APPROVED"

\* the try block around pr.get_issue_events(): 1 when a 'reopened' event is
\* met before the lookup fails, otherwise 0
ReopenedOnce(events) ==
    IF \E i \in 1 .. Len(events.items) : events.items[i] = "reopened"
    THEN 1 ELSE 0

\* mutant: a request exactly as old as the minimum age is left out
Listed_StrictlyOlder(pr, age_days, c) ==
    /\ c.verbose
    /\ age_days > c.min_age_days
    /\ HasLabel(pr, ReadyLabel)

\* the test that puts a request without comments on the detail list
Listed(pr, age_days, c) ==
    /\ c.verbose
    /\ age_days >= c.min_age_days
    /\ HasLabel(pr, ReadyLabel)

\* the local variables of get_repo_stats before the loop
LoopStart ==
    [ages                   |-> <<>>,
     comments               |-> <<>>,
     comments_with_comments |-> <<>>,
     approved               |-> 0,
     oldest_pr_age          |-> 0,
     oldest_pr_title        |-> "",
     prs_with_zero_comments |-> 0,
     zero_comment_prs       |-> <<>>,
     reopened_count         |-> 0,
     api_calls              |-> 0,
     raised                 |-> FALSE]

\* mutant: a failed review lookup is swallowed like a failed event lookup
LoopBody_AbsorbsReviewFailure(a, pr, c, t) ==
    LET age_days == AgeDays(pr, t)
        older    == age_days > a.oldest_pr_age
        listed   == Listed(pr, age_days, c)
        counted  ==
            [a EXCEPT
               !.ages            = Append(@, age_days),
               !.oldest_pr_age   = IF older THEN age_days ELSE @,
               !.oldest_pr_title = IF older THEN pr.title ELSE @,
               !.comments        = Append(@, pr.comments),
               !.prs_with_zero_comments =
                    IF pr.comments = 0 THEN @ + 1 ELSE @,
               !.zero_comment_prs =
                    IF pr.comments = 0 /\ listed
                    THEN Append(@, PRDetail(pr.title, age_days, pr.html_url))
                    ELSE @,
               !.comments_with_comments =
                    IF pr.comments = 0 THEN @ ELSE Append(@, pr.comments),
               !.api_calls       = @ + 1]
    IN  IF pr.reviews = None
        THEN counted
        ELSE [counted EXCEPT
                !.approved       = IF IsApproved(pr.reviews[1]) THEN @ + 1 ELSE @,
                !.reopened_count = @ + ReopenedOnce(pr.events),
                !.api_calls      = @ + 1]

\* one iteration of the loop over the pull requests
LoopBody(a, pr, c, t) ==
    LET age_days == AgeDays(pr, t)
        older    == age_days > a.oldest_pr_age
        listed   == Listed(pr, age_days, c)
        counted  ==
            [a EXCEPT
               !.ages            = Append(@, age_days),
               !.oldest_pr_age   = IF older THEN age_days ELSE @,
               !.oldest_pr_title = IF older THEN pr.title ELSE @,
               !.comments        = Append(@, pr.comments),
               !.prs_with_zero_comments =
                    IF pr.comments = 0 THEN @ + 1 ELSE @,
               !.zero_comment_prs =
                    IF pr.comments = 0 /\ listed
                    THEN Append(@, PRDetail(pr.title, age_days, pr.html_url))
                    ELSE @,
               !.comments_with_comments =
                    IF pr.comments = 0 THEN @ ELSE Append(@, pr.comments),
               !.api_calls       = @ + 1]
    IN  IF pr.reviews = None
        THEN [counted EXCEPT !.raised = TRUE]
        ELSE [counted EXCEPT
                !.approved       = IF IsApproved(pr.reviews[1]) THEN @ + 1 ELSE @,
                !.reopened_count = @ + ReopenedOnce(pr.events),
                !.api_calls      = @ + 1]

\* the loop: it ends at the first iteration that raises
RECURSIVE Loop(_, _, _, _)
Loop(a, prs, c, t) ==
    IF prs = <<>> \/ a.raised THEN a
    ELSE Loop(LoopBody(a, Head(prs), c, t), Tail(prs), c, t)

\* the elements of a sequence that satisfy a test, in order
SelectLess(s, bound) == SelectSeq(s, LAMBDA x : x < bound)

\* sorted(details, key=age_days, reverse=True): stable, by insertion
RECURSIVE InsertByAge(_, _)
InsertByAge(sorted, x) ==
    IF sorted = <<>> THEN <<x>>
    ELSE IF Head(sorted).age_days >= x.age_days
         THEN <<Head(sorted)>> \o InsertByAge(Tail(sorted), x)
         ELSE <<x>> \o sorted

RECURSIVE SortByAgeDesc(_)
SortByAgeDesc(s) ==
    IF s = <<>> THEN <<>>
    ELSE InsertByAge(SortByAgeDesc(SubSeq(s, 1, Len(s) - 1)), s[Len(s)])

\* the sequence without its first element equal to x
RECURSIVE RemoveFirst(_, _)
RemoveFirst(s, x) ==
    IF s = <<>> THEN <<>>
    ELSE IF Head(s) = x THEN Tail(s)
         ELSE <<Head(s)>> \o RemoveFirst(Tail(s), x)

\* mutant: only one request of the oldest age is left out
AvgExcludingOldest_DropsOne(ages, oldest_pr_age) ==
    IF Len(ages) > 1
    THEN mean(RemoveFirst(ages, oldest_pr_age))
    ELSE PyInt(0)

\* the average of the ages below the oldest age
AvgExcludingOldest(ages, oldest_pr_age) ==
    IF Len(ages) > 1
    THEN LET ages_excluding_oldest == SelectLess(ages, oldest_pr_age)
         IN  IF ages_excluding_oldest # <<>>
             THEN mean(ages_excluding_oldest) ELSE PyInt(0)
    ELSE PyInt(0)

\* mutant: the requests without comments enter the second average as well
StatsOf_AveragesEveryCount(a, n, c) ==
    PRStats(PyInt(n),
            IF a.ages # <<>> THEN mean(a.ages) ELSE PyInt(0),
            AvgExcludingOldest(a.ages, a.oldest_pr_age),
            IF a.comments # <<>> THEN mean(a.comments) ELSE PyInt(0),
            IF a.comments # <<>> THEN mean(a.comments) ELSE PyInt(0),
            PyInt(a.approved),
            PyInt(a.oldest_pr_age),
            a.oldest_pr_title,
            PyInt(a.prs_with_zero_comments),
            PyInt(a.reopened_count),
            IF c.verbose THEN Some(SortByAgeDesc(a.zero_comment_prs)) ELSE None)

\* mutant: the detail list is returned in the order of the input
StatsOf_Unsorted(a, n, c) ==
    PRStats(PyInt(n),
            IF a.ages # <<>> THEN mean(a.ages) ELSE PyInt(0),
            AvgExcludingOldest(a.ages, a.oldest_pr_age),
            IF a.comments # <<>> THEN mean(a.comments) ELSE PyInt(0),
            IF a.comments_with_comments # <<>>
                THEN mean(a.comments_with_comments) ELSE PyInt(0),
            PyInt(a.approved),
            PyInt(a.oldest_pr_age),
            a.oldest_pr_title,
            PyInt(a.prs_with_zero_comments),
            PyInt(a.reopened_count),
            IF c.verbose THEN Some(a.zero_comment_prs) ELSE None)

\* the PRStats built after the loop
StatsOf(a, n, c) ==
    PRStats(PyInt(n),
            IF a.ages # <<>> THEN mean(a.ages) ELSE PyInt(0),
            AvgExcludingOldest(a.ages, a.oldest_pr_age),
            IF a.comments # <<>> THEN mean(a.comments) ELSE PyInt(0),
            IF a.comments_with_comments # <<>>
                THEN mean(a.comments_with_comments) ELSE PyInt(0),
            PyInt(a.approved),
            PyInt(a.oldest_pr_age),
            a.oldest_pr_title,
            PyInt(a.prs_with_zero_comments),
            PyInt(a.reopened_count),
            IF c.verbose THEN Some(SortByAgeDesc(a.zero_comment_prs)) ELSE None)

\* the outcome of a get_repo_stats call: the exception raised (or "none"),
\* the returned PRStats, the rows of the table afterwards, the save_stats
\* calls made and the number of calls made to the remote API
Outcome(raised, result, rows, saves, api_calls) ==
    [raised |-> raised, result |-> result, rows |-> rows, saves |-> saves,
     api_calls |-> api_calls]

\* mutant: without a row for today an empty snapshot is written and returned
StatsFromStore_SavesEmpty(repo_name, rows, t) ==
    LET today == strftime(t)
        stats == get_stats_for_date(rows, repo_name, today)
    IN  IF stats = None
        THEN Outcome("none", Some(EmptyStats),
                     save_stats(rows, repo_name, EmptyStats, None, t),
                     << <<repo_name, EmptyStats, None>> >>, 0)
        ELSE Outcome("none",
                     Some(PRStats(ToInt(stats[1].total_prs),
                                  ToFloat(stats[1].avg_age_days),
                                  ToFloat(stats[1].avg_age_days_excluding_oldest),
                                  ToFloat(stats[1].avg_comments),
                                  ToFloat(stats[1].avg_comments_with_comments),
                                  ToInt(stats[1].approved_prs),
                                  ToInt(stats[1].oldest_pr_age),
                                  stats[1].oldest_pr_title,
                                  ToInt(stats[1].prs_with_zero_comments),
                                  PyInt(0),
                                  Some(<<>>))),
                     rows, <<>>, 0)

\* mutant: the averages are read back as whole numbers
StatsFromStore_WholeAverages(repo_name, rows, t) ==
    LET today == strftime(t)
        stats == get_stats_for_date(rows, repo_name, today)
    IN  IF stats = None
        THEN Outcome("ValueError", None, rows, <<>>, 0)
        ELSE Outcome("none",
                     Some(PRStats(ToInt(stats[1].total_prs),
                                  ToFloat(ToInt(stats[1].avg_age_days)),
                                  ToFloat(ToInt(stats[1].avg_age_days_excluding_oldest)),
                                  ToFloat(ToInt(stats[1].avg_comments)),
                                  ToFloat(ToInt(stats[1].avg_comments_with_comments)),
                                  ToInt(stats[1].approved_prs),
                                  ToInt(stats[1].oldest_pr_age),
                                  stats[1].oldest_pr_title,
                                  ToInt(stats[1].prs_with_zero_comments),
                                  PyInt(0),
                                  Some(<<>>))),
                     rows, <<>>, 0)

\* the dbonly branch: today's row of the store, or ValueError
StatsFromStore(repo_name, rows, t) ==
    LET today == strftime(t)
        stats == get_stats_for_date(rows, repo_name, today)
    IN  IF stats = None
        THEN Outcome("ValueError", None, rows, <<>>, 0)
        ELSE Outcome("none",
                     Some(PRStats(ToInt(stats[1].total_prs),
                                  ToFloat(stats[1].avg_age_days),
                                  ToFloat(stats[1].avg_age_days_excluding_oldest),
                                  ToFloat(stats[1].avg_comments),
                                  ToFloat(stats[1].avg_comments_with_comments),
                                  ToInt(stats[1].approved_prs),
                                  ToInt(stats[1].oldest_pr_age),
                                  stats[1].oldest_pr_title,
                                  ToInt(stats[1].prs_with_zero_comments),
                                  PyInt(0),
                                  Some(<<>>))),
                     rows, <<>>, 0)

\* mutant: the empty repository returns without saving
StatsFromAPI_EmptyNotSaved(repo_name, c, rows, prs, t) ==
    IF prs = <<>>
    THEN Outcome("none", Some(EmptyStats), rows, <<>>, 2)
    ELSE LET a     == Loop(LoopStart, prs, c, t)
             stats == StatsOf(a, Len(prs), c)
         IN  IF a.raised
             THEN Outcome("Exception", None, rows, <<>>, 2 + a.api_calls)
             ELSE Outcome("none", Some(stats),
                          save_stats(rows, repo_name, stats, None, t),
                          << <<repo_name, stats, None>> >>, 2 + a.api_calls)

\* mutant: the snapshot is saved before the detail list is sorted into it
StatsFromAPI_SavesOther(repo_name, c, rows, prs, t) ==
    IF prs = <<>>
    THEN Outcome("none", Some(EmptyStats),
                 save_stats(rows, repo_name, EmptyStats, None, t),
                 << <<repo_name, EmptyStats, None>> >>, 2)
    ELSE LET a     == Loop(LoopStart, prs, c, t)
             stats == StatsOf(a, Len(prs), c)
             early == [stats EXCEPT !.zero_comment_prs = None]
         IN  IF a.raised
             THEN Outcome("Exception", None, rows, <<>>, 2 + a.api_calls)
             ELSE Outcome("none", Some(stats),
                          save_stats(rows, repo_name, early, None, t),
                          << <<repo_name, early, None>> >>, 2 + a.api_calls)

\* the API branch: repo.get_pulls(state='open'), the loop, save_stats
StatsFromAPI(repo_name, c, rows, prs, t) ==
    IF prs = <<>>
    THEN Outcome("none", Some(EmptyStats),
                 save_stats(rows, repo_name, EmptyStats, None, t),
                 << <<repo_name, EmptyStats, None>> >>, 2)
    ELSE LET a     == Loop(LoopStart, prs, c, t)
             stats == StatsOf(a, Len(prs), c)
         IN  IF a.raised
             THEN Outcome("Exception", None, rows, <<>>, 2 + a.api_calls)
             ELSE Outcome("none", Some(stats),
                          save_stats(rows, repo_name, stats, None, t),
                          << <<repo_name, stats, None>> >>, 2 + a.api_calls)

\* PRReporter.get_repo_stats
get_repo_stats(repo_name, c, rows, prs, t) ==
    IF c.dbonly
    THEN StatsFromStore(repo_name, rows, t)
    ELSE StatsFromAPI(repo_name, c, rows, prs, t)

----------------------------------------------------------------------------
(* The no-recent-activity list.  Its code is not part of the sources at     *)
(* hand (only its tests are, test_pr_reporter.py 585-906); it is modelled   *)
(* from section 4.1 of the specification.                                   *)

DoNotMergeLabel == "DO NOT MERGE"

RECURSIVE MaxOfSeq(_)
MaxOfSeq(s) ==
    IF Len(s) = 1 THEN s[1]
    ELSE LET m == MaxOfSeq(Tail(s)) IN IF s[1] >= m THEN s[1] ELSE m

\* mutant: a failed or empty lookup counts as activity just now
LastActivityDays_NoFallback(pr, t) ==
    IF pr.issue_comments = None \/ pr.issue_comments = Some(<<>>)
    THEN 0
    ELSE (t - MaxOfSeq(pr.issue_comments[1])) \div TicksPerDay

\* age in days of the most recent comment event; the age of the request
\* when the lookup fails (None) or yields no comment
LastActivityDays(pr, t) ==
    IF pr.issue_comments = None \/ pr.issue_comments = Some(<<>>)
    THEN AgeDays(pr, t)
    ELSE (t - MaxOfSeq(pr.issue_comments[1])) \div TicksPerDay

\* age in days of the last push
PushAgeDays(pr, t) == (t - pr.updated_at) \div TicksPerDay

\* mutant: the last push is not looked at
IsStale_IgnoresPush(pr, threshold, t) ==
    /\ ~HasLabel(pr, DoNotMergeLabel)
    /\ LastActivityDays(pr, t) >= threshold

\* mutant: the label is not looked at
IsStale_IgnoresLabel(pr, threshold, t) ==
    /\ LastActivityDays(pr, t) >= threshold
    /\ PushAgeDays(pr, t) >= threshold

IsStale(pr, threshold, t) ==
    /\ ~HasLabel(pr, DoNotMergeLabel)
    /\ LastActivityDays(pr, t) >= threshold
    /\ PushAgeDays(pr, t) >= threshold

PRNoUpdateDetail(pr, t) ==
    [title             |-> pr.title,
     last_comment_days |-> LastActivityDays(pr, t),
     url               |-> pr.html_url,
     is_approved       |-> IsApproved(pr.reviews[1]),
     is_draft          |-> pr.draft]

RECURSIVE StaleRecords(_, _, _)
StaleRecords(prs, threshold, t) ==
    IF prs = <<>> THEN <<>>
    ELSE (IF IsStale(Head(prs), threshold, t)
          THEN <<PRNoUpdateDetail(Head(prs), t)>> ELSE <<>>)
         \o StaleRecords(Tail(prs), threshold, t)

\* the no-recent-activity list of a get_repo_stats call that returned:
\* None when no threshold is configured
NoUpdatePRs(prs, c, t) ==
    IF c.no_update_days = None THEN None
    ELSE Some(StaleRecords(prs, c.no_update_days[1], t))

----------------------------------------------------------------------------
(* The remote side: the open pull requests of a repository *)

ConfigRepos == <<"repo1", "repo2">>

TitleAt == <<"PR 1", "PR 2", "PR 3", "PR 4", "PR 5">>

NoEvents == [items |-> <<>>, fails |-> FALSE]

\* a pull request: its place in the list gives it its title and URL
MkPR(i, a) ==
    [title          |-> TitleAt[i],
     html_url       |-> i,
     created_at     |-> a.created_at,
     comments       |-> a.comments,
     labels         |-> a.labels,
     reviews        |-> a.reviews,
     events         |-> a.events,
     issue_comments |-> a.issue_comments,
     updated_at     |-> a.updated_at,
     draft          |-> a.draft]

\* the list of pull requests with the attributes f[1], ..., f[n]
PRList(f, n) == [i \in 1 .. n |-> MkPR(i, f[i])]

----------------------------------------------------------------------------
(* State machine *)

NoCall == [op |-> "none"]
GrIdle == [active |-> FALSE, i |-> 0, report |-> <<>>, saves |-> <<>>]

\* PRReporter.__init__: the fields of the reporter
Reporter(verbose, min_age_days, compare_days, dbonly) ==
    [verbose      |-> verbose,
     min_age_days |-> min_age_days,
     compare_days |-> compare_days,
     dbonly       |-> dbonly]

\* the history of save_stats calls, after the calls of one operation
RECURSIVE RecordSaves(_, _, _)
RecordSaves(h, saves, t) ==
    IF saves = <<>> THEN h
    ELSE LET call == Head(saves)
             key  == <<call[1], IF call[3] = None THEN strftime(t) ELSE call[3][1]>>
             h2   == [k \in DOMAIN h \cup {key} |->
                         IF k = key THEN call[2] ELSE h[k]]
         IN  RecordSaves(h2, Tail(saves), t)

\* the record of a finished get_repo_stats call
RepoStatsCall(repo_name, o) ==
    [op            |-> "get_repo_stats",
     repo_name     |-> repo_name,
     cfg           |-> cfg,
     prs           |-> github[repo_name],
     at            |-> now,
     raised        |-> o.raised,
     result        |-> o.result,
     saves         |-> o.saves,
     api_calls     |-> o.api_calls]

\* a call of get_repo_stats from outside generate_report
GetRepoStats(repo_name) ==
    /\ ~gr.active
    /\ LET o == get_repo_stats(repo_name, cfg, db, github[repo_name], now)
       IN  /\ db' = o.rows
           /\ saved' = RecordSaves(saved, o.saves, now)
           /\ last' = RepoStatsCall(repo_name, o)
    /\ UNCHANGED <<now, github, cfg, columns, gr>>

\* generate_report: entry
GenerateReportBegin ==
    /\ ~gr.active
    /\ gr' = [active |-> TRUE, i |-> 1, report |-> <<>>, saves |-> <<>>]
    /\ UNCHANGED <<now, github, cfg, db, columns, saved, last>>

\* mutant: a repository whose processing raises is left out of the report
\* and the loop goes on
GenerateReportStep_ContinuesAfterFailure ==
    /\ gr.active
    /\ gr.i <= Len(ConfigRepos)
    /\ LET repo_name == ConfigRepos[gr.i]
           o == get_repo_stats(repo_name, cfg, db, github[repo_name], now)
       IN  /\ db' = o.rows
           /\ saved' = RecordSaves(saved, o.saves, now)
           /\ IF o.raised = "none"
              THEN /\ last' = RepoStatsCall(repo_name, o)
                   /\ gr' = [gr EXCEPT
                               !.i = @ + 1,
                               !.report = Append(@, <<repo_name, o.result[1]>>),
                               !.saves = @ \o o.saves]
              ELSE /\ last' = RepoStatsCall(repo_name, o)
                   /\ gr' = [gr EXCEPT !.i = @ + 1]
    /\ UNCHANGED <<now, github, cfg, columns>>

\* generate_report: one iteration of its loop, a get_repo_stats call
GenerateReportStep ==
    /\ gr.active
    /\ gr.i <= Len(ConfigRepos)
    /\ LET repo_name == ConfigRepos[gr.i]
           o == get_repo_stats(repo_name, cfg, db, github[repo_name], now)
       IN  /\ db' = o.rows
           /\ saved' = RecordSaves(saved, o.saves, now)
           /\ IF o.raised = "none"
              THEN /\ last' = RepoStatsCall(repo_name, o)
                   /\ gr' = [gr EXCEPT
                               !.i = @ + 1,
                               !.report = Append(@, <<repo_name, o.result[1]>>),
                               !.saves = @ \o o.saves]
              ELSE /\ last' = [op     |-> "generate_report",
                               cfg    |-> cfg,
                               raised |-> o.raised,
                               result |-> None,
                               saves  |-> gr.saves \o o.saves,
                               failed |-> gr.i]
                   /\ gr' = GrIdle
    /\ UNCHANGED <<now, github, cfg, columns>>

\* generate_report: return report
GenerateReportEnd ==
    /\ gr.active
    /\ gr.i > Len(ConfigRepos)
    /\ last' = [op     |-> "generate_report",
                cfg    |-> cfg,
                raised |-> "none",
                result |-> Some(gr.report),
                saves  |-> gr.saves,
                failed |-> 0]
    /\ gr' = GrIdle
    /\ UNCHANGED <<now, github, cfg, db, columns, saved>>

InitStore ==
    /\ db = {}
    /\ columns = AllColumns
    /\ saved = <<>>
    /\ last = NoCall
    /\ gr = GrIdle

\* the world of one repository with open pull requests, the other without
OneRepoWorld(l) == [r \in Repos |-> IF r = ConfigRepos[1] THEN l ELSE <<>>]

----------------------------------------------------------------------------
(* SpecAgg: get_repo_stats in API mode over every list of pull requests     *)
(* that differ in age, comment count and the 'Ready for Review' label       *)

AggAttrs ==
    [created_at     : 0 .. MaxAgeTicks,
     comments       : 0 .. MaxComments,
     labels         : {{}, {ReadyLabel}},
     reviews        : {Some(<<>>)},
     events         : {NoEvents},
     issue_comments : {Some(<<>>)},
     updated_at     : {0},
     draft          : {FALSE}]

AggConfigs ==
    {Reporter(v, m, None, FALSE) : v \in BOOLEAN, m \in 0 .. MaxMinAge}

InitAgg ==
    /\ now = MaxAgeTicks
    /\ cfg \in AggConfigs
    /\ \E n \in 0 .. MaxPRs : \E f \in [1 .. n -> AggAttrs] :
          github = OneRepoWorld(PRList(f, n))
    /\ InitStore

NextAgg == GetRepoStats(ConfigRepos[1])

SpecAgg == InitAgg /\ [][NextAgg]_vars

----------------------------------------------------------------------------
(* Spec: reporters over two repositories.  A reporter is constructed, asked *)
(* for the statistics of one repository or for the whole report, and        *)
(* replaced by a reporter of another configuration over the same database.  *)

SpecAttrs ==
    [created_at     : {0},
     comments       : {0},
     labels         : {{ReadyLabel}},
     reviews        : {None, Some(<<"APPROVED">>)},
     events         : {NoEvents},
     issue_comments : {Some(<<>>)},
     updated_at     : {0},
     draft          : {FALSE}]

SpecConfigs ==
    {Reporter(v, 0, None, d) : v \in BOOLEAN, d \in BOOLEAN}

\* a new PRReporter over the database file of the previous one: its last
\* statement makes a DatabaseManager, which creates the table when there is
\* none and runs _migrate_schema; an error of the migration leaves its
\* constructor, and the previous reporter stays
Construct(c) ==
    /\ ~gr.active
    /\ LET t == migrate_schema(columns, db)
       IN  /\ columns' = t.columns
           /\ db' = t.rows
           /\ cfg' = IF t.raised THEN cfg ELSE c
    /\ UNCHANGED <<now, github, saved, last, gr>>

Init ==
    /\ now = MaxAgeTicks
    /\ cfg \in SpecConfigs
    /\ \E n1 \in 0 .. MaxPRs, n2 \in 0 .. MaxPRs :
         \E f1 \in [1 .. n1 -> SpecAttrs], f2 \in [1 .. n2 -> SpecAttrs] :
            github = [r \in Repos |->
                        IF r = ConfigRepos[1] THEN PRList(f1, n1)
                                              ELSE PRList(f2, n2)]
    /\ InitStore

Next ==
    \/ \E r \in Repos : GetRepoStats(r)
    \/ GenerateReportBegin
    \/ GenerateReportStep
    \/ GenerateReportEnd
    \/ \E c \in SpecConfigs : Construct(c)

Spec == Init /\ [][Next]_vars

----------------------------------------------------------------------------
(* SpecStore: direct calls of the store, as test_db_manager.py makes them   *)

\* snapshots whose fields all differ, within a snapshot and between them
Snapshot(i) ==
    PRStats(PyInt(i), PyFloat(2 * i + 1, 2), PyInt(i + 10), PyFloat(i, 3),
            PyFloat(i + 20, 1), PyInt(i + 30), PyInt(i + 40), TitleAt[i],
            PyInt(i + 50), PyInt(i), None)

SnapshotIds == 1 .. NumSnapshots

\* db.save_stats(repo_name, stats, date), date None or Some(day)
SaveStats(repo_name, stats, date) ==
    /\ db' = save_stats(db, repo_name, stats, date, now)
    /\ saved' = RecordSaves(saved, << <<repo_name, stats, date>> >>, now)
    /\ last' = [op        |-> "save_stats",
                repo_name |-> repo_name,
                stats     |-> stats,
                date      |-> date,
                at        |-> now,
                prior     |-> {r \in db : r.repo_name = repo_name
                                  /\ r.date = (IF date = None THEN strftime(now)
                                               ELSE date[1])}]
    /\ UNCHANGED <<now, github, cfg, columns, gr>>

\* db.get_stats_for_date(repo_name, date)
GetStatsForDate(repo_name, date) ==
    /\ last' = [op        |-> "get_stats_for_date",
                repo_name |-> repo_name,
                date      |-> date,
                result    |-> get_stats_for_date(db, repo_name, date)]
    /\ UNCHANGED <<now, github, cfg, db, columns, saved, gr>>

InitStoreCalls ==
    /\ now = MaxDay * TicksPerDay + (TicksPerDay - 1)
    /\ cfg = Reporter(FALSE, 0, None, FALSE)
    /\ github = [r \in Repos |-> <<>>]
    /\ InitStore

NextStore ==
    \/ \E r \in Repos, i \in SnapshotIds, d \in {None} \cup {Some(x) : x \in Days} :
          SaveStats(r, Snapshot(i), d)
    \/ \E r \in Repos, d \in Days : GetStatsForDate(r, d)

SpecStore == InitStoreCalls /\ [][NextStore]_vars

----------------------------------------------------------------------------
(* SpecQuery: the read operations of the store and the comparison lookup,   *)
(* over every set of rows dated before today                                *)

\* the days the rows are dated, and the day of the calls
QueryDays  == 0 .. MaxDay + 1
QueryToday == MaxDay + 2

\* the snapshot saved on a day
SnapshotOn(day) == Snapshot((day % NumSnapshots) + 1)

\* db.get_latest_stats(repo_name)
GetLatestStats(repo_name) ==
    /\ last' = [op        |-> "get_latest_stats",
                repo_name |-> repo_name,
                result    |-> get_latest_stats(db, repo_name)]
    /\ UNCHANGED <<now, github, cfg, db, columns, saved, gr>>

\* db.get_earliest_stats(repo_name)
GetEarliestStats(repo_name) ==
    /\ last' = [op        |-> "get_earliest_stats",
                repo_name |-> repo_name,
                result    |-> get_earliest_stats(db, repo_name)]
    /\ UNCHANGED <<now, github, cfg, db, columns, saved, gr>>

\* db.get_stats_before_date(repo_name, target_date)
GetStatsBeforeDate(repo_name, target_date) ==
    /\ last' = [op          |-> "get_stats_before_date",
                repo_name   |-> repo_name,
                target_date |-> target_date,
                result      |-> get_stats_before_date(db, repo_name, target_date)]
    /\ UNCHANGED <<now, github, cfg, db, columns, saved, gr>>

\* reporter._get_comparison_stats(repo_name)
GetComparisonStats(repo_name) ==
    /\ last' = [op        |-> "_get_comparison_stats",
                repo_name |-> repo_name,
                cfg       |-> cfg,
                at        |-> now,
                result    |-> get_comparison_stats(cfg, db, repo_name, now)]
    /\ UNCHANGED <<now, github, cfg, db, columns, saved, gr>>

\* the reporters main builds for --compare: any number of days from 0
QueryConfigs ==
    {Reporter(FALSE, 0, cd, FALSE) :
        cd \in {None} \cup {Some(k) : k \in 0 .. MaxCompare}}

InitQuery ==
    /\ now = QueryToday * TicksPerDay + 1
    /\ cfg \in QueryConfigs
    /\ github = [r \in Repos |-> <<>>]
    /\ InitStore

NextQuery ==
    \/ \E r \in Repos, d \in QueryDays : SaveStats(r, SnapshotOn(d), Some(d))
    \/ \E r \in Repos : GetLatestStats(r)
    \/ \E r \in Repos : GetEarliestStats(r)
    \/ \E r \in Repos, t \in 0 .. (QueryToday + 1) * TicksPerDay - 1 :
          GetStatsBeforeDate(r, t)
    \/ \E r \in Repos, d \in QueryDays \cup {QueryToday} : GetStatsForDate(r, d)
    \/ \E r \in Repos : GetComparisonStats(r)

SpecQuery == InitQuery /\ [][NextQuery]_vars

----------------------------------------------------------------------------
(* SpecMigrate: _migrate_schema over tables written by earlier versions,    *)
(* which lack some of the later columns                                     *)

\* the row an earlier version wrote for a repository and day
OldRow(repo_name, day, cols) ==
    [c \in cols |-> BoundRow(repo_name, SnapshotOn(day), day)[c]]

\* db._migrate_schema()
MigrateSchema ==
    /\ LET t == migrate_schema(columns, db)
       IN  /\ columns' = t.columns
           /\ db' = t.rows
           /\ last' = [op             |-> "_migrate_schema",
                       columns_before |-> columns,
                       rows_before    |-> db,
                       raised         |-> t.raised]
    /\ UNCHANGED <<now, github, cfg, saved, gr>>

InitMigrate ==
    /\ now = MaxDay * TicksPerDay
    /\ cfg = Reporter(FALSE, 0, None, FALSE)
    /\ github = [r \in Repos |-> <<>>]
    /\ \E missing \in SUBSET {LaterColumns[i] : i \in 1 .. Len(LaterColumns)} :
          /\ columns = AllColumns \ missing
          /\ \E keys \in SUBSET (Repos \X Days) :
                db = {OldRow(k[1], k[2], AllColumns \ missing) : k \in keys}
    /\ saved = <<>>
    /\ last = NoCall
    /\ gr = GrIdle

\* the migration called on its own, and the construction of a reporter over
\* the table, which runs it
NextMigrate ==
    \/ MigrateSchema
    \/ \E c \in SpecConfigs : Construct(c)

SpecMigrate == InitMigrate /\ [][NextMigrate]_vars

----------------------------------------------------------------------------
(* SpecStale: get_repo_stats with the no-recent-activity threshold, over    *)
(* requests that differ in their comment events, last push and label        *)

\* a time exactly one day before the call, and one just under a day before
TEdge == MaxAgeTicks - TicksPerDay
TNear == MaxAgeTicks - TicksPerDay + 1

\* the attributes of a request created at c, whose comment events (None when
\* the lookup raises) and last push are not earlier than its creation
StaleAttrsAt(c, lookups, pushes) ==
    {[created_at     |-> c,
      comments       |-> IF ic = None THEN MaxComments ELSE Len(ic[1]),
      labels         |-> ls,
      reviews        |-> Some(<<>>),
      events         |-> NoEvents,
      issue_comments |-> ic,
      updated_at     |-> u,
      draft          |-> FALSE] :
        ic \in lookups, u \in pushes, ls \in {{}, {DoNotMergeLabel}}}

StaleAttrs ==
    StaleAttrsAt(0,
                 {None, Some(<<>>), Some(<<TEdge>>), Some(<<TNear>>),
                  Some(<<TEdge, TNear>>), Some(<<TNear, TEdge>>)},
                 {TEdge, TNear})
    \cup StaleAttrsAt(TNear, {None, Some(<<>>), Some(<<TNear>>)}, {TNear})

\* the reporter of section 4.1 of the specification: the fields of
\* PRReporter.__init__ and the threshold; a configured threshold turns the
\* detail mode on
StaleReporter(verbose, min_age_days, compare_days, dbonly, no_update_days) ==
    [verbose        |-> verbose \/ no_update_days # None,
     min_age_days   |-> min_age_days,
     compare_days   |-> compare_days,
     dbonly         |-> dbonly,
     no_update_days |-> no_update_days]

StaleConfigs ==
    {StaleReporter(FALSE, 0, None, FALSE, nu) :
        nu \in {None} \cup {Some(d) : d \in 1 .. MaxStaleDays}}

\* the record of a finished get_repo_stats call of that reporter: the
\* record of the call and the no-recent-activity list it returned
StaleRepoStatsCall(repo_name, o) ==
    LET call == RepoStatsCall(repo_name, o)
    IN  [f \in DOMAIN call \cup {"no_update_prs"} |->
            IF f = "no_update_prs"
            THEN (IF o.raised = "none" /\ ~cfg.dbonly
                  THEN NoUpdatePRs(github[repo_name], cfg, now)
                  ELSE None)
            ELSE call[f]]

\* a call of get_repo_stats of that reporter: the statistics and the save
\* of PRReporter.get_repo_stats, and the no-recent-activity list
GetRepoStatsStale(repo_name) ==
    /\ ~gr.active
    /\ LET o == get_repo_stats(repo_name, cfg, db, github[repo_name], now)
       IN  /\ db' = o.rows
           /\ saved' = RecordSaves(saved, o.saves, now)
           /\ last' = StaleRepoStatsCall(repo_name, o)
    /\ UNCHANGED <<now, github, cfg, columns, gr>>

InitStale ==
    /\ now = MaxAgeTicks
    /\ cfg \in StaleConfigs
    /\ \E n \in 0 .. MaxPRs : \E f \in [1 .. n -> StaleAttrs] :
          github = OneRepoWorld(PRList(f, n))
    /\ InitStore

NextStale == GetRepoStatsStale(ConfigRepos[1])

SpecStale == InitStale /\ [][NextStale]_vars

----------------------------------------------------------------------------
(* The closed-request analysis: closed_pr_analyzer.py.  A duration in days  *)
(* is the float ticks / TicksPerDay.  The result of statistics.stdev is     *)
(* kept as the number it is the square root of.                             *)

\* arithmetic of floats, as exact rationals
FloatAdd(a, b) == PyFloat(a.n * b.d + b.n * a.d, a.d * b.d)
FloatSub(a, b) == PyFloat(a.n * b.d - b.n * a.d, a.d * b.d)
FloatMul(a, b) == PyFloat(a.n * b.n, a.d * b.d)

RECURSIVE FloatSum(_)
FloatSum(xs) ==
    IF xs = <<>> THEN PyFloat(0, 1) ELSE FloatAdd(Head(xs), FloatSum(Tail(xs)))

\* statistics.mean of a non-empty list of floats
fmean(xs) == LET t == FloatSum(xs) IN PyFloat(t.n, t.d * Len(xs))

\* the sum of the squares of the distances of the values from m
RECURSIVE SquaresFrom(_, _)
SquaresFrom(xs, m) ==
    IF xs = <<>> THEN PyFloat(0, 1)
    ELSE FloatAdd(FloatMul(FloatSub(Head(xs), m), FloatSub(Head(xs), m)),
                  SquaresFrom(Tail(xs), m))

\* mutant: the population variance, the squares divided by n
variance_Population(xs) ==
    LET ss == SquaresFrom(xs, fmean(xs))
    IN  PyFloat(ss.n, ss.d * Len(xs))

\* statistics.variance of two or more values: the squares divided by n - 1
variance(xs) ==
    LET ss == SquaresFrom(xs, fmean(xs))
    IN  PyFloat(ss.n, ss.d * (Len(xs) - 1))

\* statistics.stdev raises StatisticsError for fewer than two values
StdevRaises(xs) == Len(xs) < 2

\* statistics.stdev of two or more values: the square root of the variance
stdev(xs) == [k |-> "float", sqrt_of |-> variance(xs)]

\* stdev(xs) if len(xs) > 1 else 0
GuardedStdev(xs) == IF Len(xs) > 1 THEN stdev(xs) ELSE PyInt(0)

\* ClosedPRAnalyzer.__init__: the fields of the analyzer; user_login is None
\* or Some(string): Some("all"), Some(login), or Some("") for --user ''
Analyzer(days, user_login, debug) ==
    [days |-> days, user_login |-> user_login, debug |-> debug]

\* the truth of user_login in 'if user_login': None and the empty string
\* are false
IsTrue(user_login) == user_login # None /\ user_login # Some("")

\* (pr.closed_at - pr.created_at).total_seconds() / (24 * 3600)
DaysOpen(pr) == PyFloat(pr.closed_at - pr.created_at, TicksPerDay)

\* mutant: every reopened event in the window is counted
ReopenedInWindow_EveryEvent(events, start_date, end_date) ==
    IF events = None THEN 0
    ELSE Cardinality({i \in 1 .. Len(events.items) :
                        /\ events.items[i].event = "reopened"
                        /\ events.items[i].created_at >= start_date
                        /\ events.items[i].created_at <= end_date})

\* the try block around pr.get_issue_events(): events is None when the call
\* raises, else the events met and whether the iteration raises after them;
\* the loop stops at the first match, and an exception is swallowed
ReopenedInWindow(events, start_date, end_date) ==
    IF events = None THEN 0
    ELSE IF \E i \in 1 .. Len(events.items) :
               /\ events.items[i].event = "reopened"
               /\ events.items[i].created_at >= start_date
               /\ events.items[i].created_at <= end_date
         THEN 1 ELSE 0

\* the local variables of analyze_repo before the loop
ClosedLoopStart ==
    [closed_prs      |-> <<>>,
     user_closed_prs |-> <<>>,
     user_stats      |-> <<>>,
     reopened_count  |-> 0]

\* user_stats[author_login].append(age_days), with a new list for a new login
AppendFor(user_stats, author_login, age_days) ==
    [l \in DOMAIN user_stats \cup {author_login} |->
        IF l = author_login
        THEN (IF l \in DOMAIN user_stats THEN user_stats[l] ELSE <<>>)
                \o <<age_days>>
        ELSE user_stats[l]]

\* mutant: with 'all' the requests are also taken as the tracked user's
ClosedLoopBody_BothModes(a, pr, c, start_date, end_date) ==
    LET age_days     == DaysOpen(pr)
        author_login == IF pr.user # None THEN pr.user[1] ELSE "N/A"
    IN  [a EXCEPT
           !.closed_prs     = Append(@, age_days),
           !.reopened_count = @ + ReopenedInWindow(pr.events, start_date, end_date),
           !.user_stats     = IF c.user_login = Some("all")
                              THEN AppendFor(@, author_login, age_days) ELSE @,
           !.user_closed_prs =
                IF IsTrue(c.user_login) /\ pr.user # None
                    /\ (c.user_login = Some("all") \/ pr.user[1] = c.user_login[1])
                THEN Append(@, age_days) ELSE @]

\* one iteration of the loop over the closed pull requests
ClosedLoopBody(a, pr, c, start_date, end_date) ==
    LET age_days     == DaysOpen(pr)
        author_login == IF pr.user # None THEN pr.user[1] ELSE "N/A"
    IN  [a EXCEPT
           !.closed_prs     = Append(@, age_days),
           !.reopened_count = @ + ReopenedInWindow(pr.events, start_date, end_date),
           !.user_stats     = IF c.user_login = Some("all")
                              THEN AppendFor(@, author_login, age_days) ELSE @,
           !.user_closed_prs =
                IF c.user_login # Some("all") /\ IsTrue(c.user_login)
                    /\ pr.user # None /\ pr.user[1] = c.user_login[1]
                THEN Append(@, age_days) ELSE @]

RECURSIVE ClosedLoop_SkipsOutside(_, _, _, _, _)
\* mutant: a request closed before the start date is skipped, the loop goes on
ClosedLoop_SkipsOutside(a, prs, c, start_date, end_date) ==
    IF prs = <<>> THEN a
    ELSE IF Head(prs).closed_at < start_date
    THEN ClosedLoop_SkipsOutside(a, Tail(prs), c, start_date, end_date)
    ELSE ClosedLoop_SkipsOutside(
             ClosedLoopBody(a, Head(prs), c, start_date, end_date),
             Tail(prs), c, start_date, end_date)

RECURSIVE ClosedLoop_StopsOnFailure(_, _, _, _, _)
\* mutant: a failed event lookup ends the loop
ClosedLoop_StopsOnFailure(a, prs, c, start_date, end_date) ==
    IF prs = <<>> THEN a
    ELSE IF Head(prs).closed_at < start_date THEN a
    ELSE IF Head(prs).events = None THEN a
    ELSE ClosedLoop_StopsOnFailure(
             ClosedLoopBody(a, Head(prs), c, start_date, end_date),
             Tail(prs), c, start_date, end_date)

\* the loop: it breaks at the first request closed before the start date
RECURSIVE ClosedLoop(_, _, _, _, _)
ClosedLoop(a, prs, c, start_date, end_date) ==
    IF prs = <<>> THEN a
    ELSE IF Head(prs).closed_at < start_date THEN a
    ELSE ClosedLoop(ClosedLoopBody(a, Head(prs), c, start_date, end_date),
                    Tail(prs), c, start_date, end_date)

\* ClosedPRAnalyzer.analyze_repo: the dictionary it returns
analyze_repo(repo_name, c, prs, t) ==
    LET end_date   == t
        start_date == end_date - c.days * TicksPerDay
        a          == ClosedLoop(ClosedLoopStart, prs, c, start_date, end_date)
    IN  IF a.closed_prs = <<>>
        THEN [repo_name          |-> repo_name,
              total_closed       |-> 0,
              avg_days_open      |-> PyInt(0),
              std_dev_days       |-> PyInt(0),
              user_total_closed  |-> 0,
              user_avg_days_open |-> PyInt(0),
              user_std_dev_days  |-> PyInt(0),
              user_stats         |-> IF c.user_login = Some("all")
                                     THEN Some(<<>>) ELSE None,
              reopened_count     |-> 0]
        ELSE [repo_name          |-> repo_name,
              total_closed       |-> Len(a.closed_prs),
              avg_days_open      |-> fmean(a.closed_prs),
              std_dev_days       |-> GuardedStdev(a.closed_prs),
              user_total_closed  |-> Len(a.user_closed_prs),
              user_avg_days_open |-> IF a.user_closed_prs # <<>>
                                     THEN fmean(a.user_closed_prs) ELSE PyInt(0),
              user_std_dev_days  |-> GuardedStdev(a.user_closed_prs),
              user_stats         |-> IF c.user_login = Some("all")
                                     THEN Some(a.user_stats) ELSE None,
              reopened_count     |-> a.reopened_count]

\* ClosedPRAnalyzer.generate_report: the report of every configured repository
closed_report(c, world, t) ==
    [i \in 1 .. Len(ConfigRepos) |->
        analyze_repo(ConfigRepos[i], c, world[ConfigRepos[i]], t)]

\* the durations print_report collects again from the repositories i .. n
RECURSIVE AllDaysFrom(_, _, _, _)
AllDaysFrom(i, days, world, t) ==
    IF i > Len(ConfigRepos) THEN <<>>
    ELSE ClosedLoop(ClosedLoopStart, world[ConfigRepos[i]],
                    Analyzer(days, None, FALSE),
                    t - days * TicksPerDay, t).closed_prs
         \o AllDaysFrom(i + 1, days, world, t)

\* [stats['user_avg_days_open']] * stats['user_total_closed'] of the
\* repositories i .. n
RECURSIVE UserAllDaysFrom(_, _)
UserAllDaysFrom(i, report) ==
    IF i > Len(report) THEN <<>>
    ELSE [k \in 1 .. report[i].user_total_closed |-> report[i].user_avg_days_open]
         \o UserAllDaysFrom(i + 1, report)

\* ClosedPRAnalyzer.print_report: the exception it ends with, and the overall
\* standard deviations it prints (None where it prints none)
print_report(report, days, user_login, debug, world, t) ==
    LET all_days      == AllDaysFrom(1, days, world, t)
        user_all_days == UserAllDaysFrom(1, report)
        has_user_rows == \E i \in 1 .. Len(report) :
                            /\ report[i].user_stats # None
                            /\ report[i].user_stats # Some(<<>>)
        by_all        == user_login = Some("all") /\ has_user_rows
        by_user       == ~by_all /\ IsTrue(user_login)
    IN  IF debug
        THEN [raised |-> "none", overall_std |-> None, user_std |-> None]
        ELSE IF all_days # <<>> /\ StdevRaises(all_days)
        THEN [raised |-> "StatisticsError", overall_std |-> None, user_std |-> None]
        ELSE IF by_user /\ user_all_days # <<>> /\ StdevRaises(user_all_days)
        THEN [raised      |-> "StatisticsError",
              overall_std |-> IF all_days # <<>> THEN Some(stdev(all_days)) ELSE None,
              user_std    |-> None]
        ELSE [raised      |-> "none",
              overall_std |-> IF all_days # <<>> THEN Some(stdev(all_days)) ELSE None,
              user_std    |-> IF by_user /\ user_all_days # <<>>
                              THEN Some(stdev(user_all_days)) ELSE None]

\* a closed pull request
ClosedPR(closed_at, created_at, user, events) ==
    [closed_at |-> closed_at, created_at |-> created_at, user |-> user,
     events |-> events]

\* analyzer.analyze_repo(repo_name)
AnalyzeRepo(repo_name) ==
    /\ last' = [op        |-> "analyze_repo",
                repo_name |-> repo_name,
                cfg       |-> cfg,
                prs       |-> github[repo_name],
                at        |-> now,
                result    |-> analyze_repo(repo_name, cfg, github[repo_name], now)]
    /\ UNCHANGED <<now, github, cfg, db, columns, saved, gr>>

\* main of closed_pr_analyzer.py: generate_report, then print_report
AnalyzerMain ==
    /\ LET report == closed_report(cfg, github, now)
       IN  last' = [op      |-> "print_report",
                    cfg     |-> cfg,
                    world   |-> github,
                    at      |-> now,
                    report  |-> report,
                    printed |-> print_report(report, cfg.days, cfg.user_login,
                                             cfg.debug, github, now)]
    /\ UNCHANGED <<now, github, cfg, db, columns, saved, gr>>

----------------------------------------------------------------------------
(* SpecReopen: analyze_repo over closed requests that differ in their       *)
(* timeline events and in whether they were closed inside the window        *)

\* the window of a call made at MaxAgeTicks
WindowEnd   == MaxAgeTicks
WindowStart == MaxAgeTicks - WindowDays * TicksPerDay

NoClosedEvents == [items |-> <<>>, fails |-> FALSE]

\* a timeline event
Event(kind, t) == [event |-> kind, created_at |-> t]

\* the events met on a timeline: none, one reopening at either end of the
\* window or before it, another kind of event, two reopenings
ItemChoices ==
    {<<>>,
     <<Event("reopened", WindowStart)>>,
     <<Event("reopened", WindowEnd)>>,
     <<Event("reopened", WindowStart - 1)>>,
     <<Event("closed", WindowEnd)>>,
     <<Event("reopened", WindowStart), Event("reopened", WindowEnd)>>,
     <<Event("reopened", WindowStart - 1), Event("reopened", WindowEnd)>>}

\* get_issue_events raises (None), or yields events and then ends or raises
EventChoices ==
    {None} \cup {[items |-> it, fails |-> f] : it \in ItemChoices, f \in BOOLEAN}

ReopenAttrs ==
    {ClosedPR(ca, ca - 1, Some("user1"), ev) :
        ca \in {WindowStart, WindowEnd}, ev \in EventChoices}
    \cup {ClosedPR(WindowStart - 1, WindowStart - 2, Some("user1"),
                   [items |-> <<Event("reopened", WindowEnd)>>, fails |-> FALSE])}

InitReopen ==
    /\ now = WindowEnd
    /\ cfg \in {Analyzer(WindowDays, u, FALSE) : u \in {None, Some(""), Some("user1")}}
    /\ \E n \in 0 .. MaxPRs : \E f \in [1 .. n -> ReopenAttrs] :
          github = OneRepoWorld(f)
    /\ InitStore

NextReopen == AnalyzeRepo(ConfigRepos[1])

SpecReopen == InitReopen /\ [][NextReopen]_vars

----------------------------------------------------------------------------
(* SpecClosed: analyze_repo and the report of main over closed requests     *)
(* that differ in their author and in the time they were open               *)

\* the times a request was open, in ticks: less than a day, 4 days, 8 days
DurationChoices == {1, 4 * TicksPerDay, 8 * TicksPerDay}

\* the author of a request: none, or a user whose login may be empty
UserChoices == {None, Some(""), Some("user1"), Some("user2")}

ClosedAttrs ==
    {ClosedPR(WindowStart, WindowStart - d, u, NoClosedEvents) :
        d \in DurationChoices, u \in UserChoices}
    \cup {ClosedPR(WindowStart - 1, WindowStart - 2, Some("user1"), NoClosedEvents)}

\* the closed requests of the second repository: none or one
OtherRepoChoices ==
    {<<>>} \cup {<<ClosedPR(WindowEnd, WindowEnd - 1, u, NoClosedEvents)>> :
                    u \in {Some("user1"), Some("user2")}}

ClosedConfigs ==
    {Analyzer(WindowDays, u, d) :
        u \in {None, Some(""), Some("all"), Some("user1")}, d \in BOOLEAN}

InitClosed ==
    /\ now = WindowEnd
    /\ cfg \in ClosedConfigs
    /\ \E n \in 0 .. MaxPRs : \E f \in [1 .. n -> ClosedAttrs] :
          \E other \in OtherRepoChoices :
             github = [r \in Repos |-> IF r = ConfigRepos[1] THEN f ELSE other]
    /\ InitStore

NextClosed ==
    \/ \E r \in Repos : AnalyzeRepo(r)
    \/ AnalyzerMain

SpecClosed == InitClosed /\ [][NextClosed]_vars

----------------------------------------------------------------------------
(* SpecCompare: _format_comparison over the values a metric can take: the   *)
(* counts, the means of up to MaxPRs counts, and means of more counts that  *)
(* lie half way between two tenths                                          *)

\* means that lie half way between two tenths: the quarters, which a float
\* holds exactly, and the twentieths, which it does not
HalfwayValues ==
    {PyFloat(1, 4), PyFloat(3, 4), PyFloat(1, 20), PyFloat(7, 20),
     PyFloat(9, 20)}

MetricValues ==
    {PyInt(i) : i \in 0 .. MaxMetric}
    \cup {PyFloat(n, d) : n \in 0 .. MaxMetric * MaxPRs, d \in 1 .. MaxPRs}
    \cup HalfwayValues

\* reporter._format_comparison(current, previous, format_str)
FormatComparison(current, previous, digits) ==
    /\ last' = [op       |-> "_format_comparison",
                current  |-> current,
                previous |-> previous,
                digits   |-> digits,
                result   |-> format_comparison(current, previous, digits)]
    /\ UNCHANGED <<now, github, cfg, db, columns, saved, gr>>

InitCompare ==
    /\ now = 0
    /\ cfg = Reporter(FALSE, 0, Some(1), FALSE)
    /\ github = [r \in Repos |-> <<>>]
    /\ InitStore

NextCompare ==
    \E current \in MetricValues, previous \in MetricValues, digits \in {0, 1} :
        FormatComparison(current, previous, digits)

SpecCompare == InitCompare /\ [][NextCompare]_vars

----------------------------------------------------------------------------
(* SpecWindow: analyze_repo over lists in any order of requests closed      *)
(* inside and before the window, with authors and reopenings                *)

WindowAttrs ==
    {ClosedPR(ca, ca - d, Some(u), [items |-> it, fails |-> FALSE]) :
        ca \in {WindowStart, WindowEnd},
        d  \in {1, TicksPerDay},
        u  \in {"", "user1", "user2"},
        it \in {<<>>, <<Event("reopened", WindowEnd)>>}}
    \cup {ClosedPR(WindowStart - 1, WindowStart - 2, Some("user1"),
                   [items |-> <<Event("reopened", WindowEnd)>>, fails |-> FALSE])}

WindowConfigs ==
    {Analyzer(WindowDays, u, FALSE) :
        u \in {None, Some(""), Some("all"), Some("user1")}}

InitWindow ==
    /\ now = WindowEnd
    /\ cfg \in WindowConfigs
    /\ \E n \in 0 .. MaxPRs : \E f \in [1 .. n -> WindowAttrs] :
          github = OneRepoWorld(f)
    /\ InitStore

NextWindow == AnalyzeRepo(ConfigRepos[1])

SpecWindow == InitWindow /\ [][NextWindow]_vars

----------------------------------------------------------------------------
(* SpecFrame: every operation of the store, on a table that an earlier      *)
(* version may have written.  A DatabaseManager migrates the table when it  *)
(* is constructed, so the other operations meet the full set of columns.    *)

\* the first and the last day of the store calls, and two snapshots
FrameDays      == {0, MaxDay}
FrameSnapshots == {Snapshot(1), Snapshot(NumSnapshots)}

\* the columns a table of an earlier version may lack
FrameMissing ==
    {{}, {"prs_with_zero_comments"},
     {LaterColumns[i] : i \in 1 .. Len(LaterColumns)}}

\* db.get_stats_in_date_range(repo_name, start_date, end_date)
GetStatsInDateRange(repo_name, start_date, end_date) ==
    /\ last' = [op         |-> "get_stats_in_date_range",
                repo_name  |-> repo_name,
                start_date |-> start_date,
                end_date   |-> end_date,
                result     |-> get_stats_in_date_range(db, repo_name,
                                                       start_date, end_date)]
    /\ UNCHANGED <<now, github, cfg, db, columns, saved, gr>>

InitFrame ==
    /\ now = MaxDay * TicksPerDay
    /\ cfg = Reporter(FALSE, 0, None, FALSE)
    /\ github = [r \in Repos |-> <<>>]
    /\ \E missing \in FrameMissing :
          /\ columns = AllColumns \ missing
          /\ \E keys \in SUBSET (Repos \X {0}) :
                db = {OldRow(k[1], k[2], AllColumns \ missing) : k \in keys}
    /\ saved = <<>>
    /\ last = NoCall
    /\ gr = GrIdle

NextFrame ==
    \/ MigrateSchema
    \/ /\ columns = AllColumns
       /\ \E r \in Repos, s \in FrameSnapshots,
             d \in {None} \cup {Some(x) : x \in FrameDays} : SaveStats(r, s, d)
    \/ /\ columns = AllColumns
       /\ \E r \in Repos, d \in FrameDays : GetStatsForDate(r, d)
    \/ /\ columns = AllColumns
       /\ \E r \in Repos : GetLatestStats(r)
    \/ /\ columns = AllColumns
       /\ \E r \in Repos : GetEarliestStats(r)
    \/ /\ columns = AllColumns
       /\ \E r \in Repos, d \in FrameDays : GetStatsBeforeDate(r, d * TicksPerDay)
    \/ /\ columns = AllColumns
       /\ \E r \in Repos, d \in FrameDays :
             GetStatsInDateRange(r, d * TicksPerDay, MaxDay * TicksPerDay)

SpecFrame == InitFrame /\ [][NextFrame]_vars

----------------------------------------------------------------------------
(* SpecRun: get_repo_stats over requests whose review lookup or event       *)
(* lookup may fail, by a reporter in API mode and by a later reporter in    *)
(* store-only mode over the same database                                   *)

\* the events met on a timeline and whether the lookup then raises: none,
\* a failure after another kind of event, a reopening, a reopening on the
\* first page of a timeline whose second page would fail
RunEvents ==
    {NoEvents,
     [items |-> <<"labeled">>, fails |-> TRUE],
     [items |-> <<"reopened">>, fails |-> FALSE],
     [items |-> <<"labeled", "reopened">>, fails |-> TRUE]}

RunAttrs ==
    [created_at     : {0, TicksPerDay},
     comments       : {0},
     labels         : {{ReadyLabel}},
     reviews        : {None, Some(<<"APPROVED">>)},
     events         : RunEvents,
     issue_comments : {Some(<<>>)},
     updated_at     : {0},
     draft          : {FALSE}]

\* the one open request of the second repository
OtherOpenPR ==
    [created_at |-> 0, comments |-> 1, labels |-> {}, reviews |-> Some(<<>>),
     events |-> NoEvents, issue_comments |-> Some(<<>>), updated_at |-> 0,
     draft |-> FALSE]

RunConfigs == {Reporter(TRUE, 0, None, d) : d \in BOOLEAN}

InitRun ==
    /\ now = MaxAgeTicks
    /\ cfg \in RunConfigs
    /\ \E n \in 0 .. MaxPRs : \E f \in [1 .. n -> RunAttrs] :
          github = [r \in Repos |->
                      IF r = ConfigRepos[1] THEN PRList(f, n)
                      ELSE <<MkPR(MaxPRs + 1, OtherOpenPR)>>]
    /\ InitStore

NextRun ==
    \/ \E r \in Repos : GetRepoStats(r)
    \/ \E c \in RunConfigs : Construct(c)

SpecRun == InitRun /\ [][NextRun]_vars

----------------------------------------------------------------------------
(* SpecMain: main of pr_reporter.py in API mode with and without --compare: *)
(* generate_report, then the lines of every repository of the report; the   *)
(* table is empty or holds the row of an earlier day                        *)

MainAttrs ==
    [created_at     : {0, TicksPerDay},
     comments       : 0 .. MaxComments,
     labels         : {{}},
     reviews        : {Some(<<"APPROVED">>)},
     events         : {NoEvents, [items |-> <<"reopened">>, fails |-> FALSE]},
     issue_comments : {Some(<<>>)},
     updated_at     : {0},
     draft          : {FALSE}]

\* the reporters main builds: --compare absent or any number of days from 0
MainConfigs ==
    {Reporter(FALSE, 0, cd, FALSE) :
        cd \in {None} \cup {Some(k) : k \in 0 .. MaxCompare}}

\* the rows an earlier run left: none, or the row of day 0
EarlierRows ==
    {{}, {BoundRow(ConfigRepos[1], Snapshot(1), 0)}}

\* the loop of main over the report that generate_report returned
MainReport ==
    /\ ~gr.active
    /\ last.op = "generate_report"
    /\ last.raised = "none"
    /\ last' = [op      |-> "main",
                cfg     |-> cfg,
                at      |-> now,
                printed |-> [i \in 1 .. Len(last.result[1]) |->
                               MainLines(cfg, db, last.result[1][i][1],
                                         last.result[1][i][2], now)]]
    /\ UNCHANGED <<now, github, cfg, db, columns, saved, gr>>

InitMain ==
    /\ now = MaxAgeTicks
    /\ cfg \in MainConfigs
    /\ \E n \in 0 .. MaxPRs : \E f \in [1 .. n -> MainAttrs] :
          github = OneRepoWorld(PRList(f, n))
    /\ db \in EarlierRows
    /\ columns = AllColumns
    /\ saved = [k \in {<<r.repo_name, r.date>> : r \in db} |-> Snapshot(1)]
    /\ last = NoCall
    /\ gr = GrIdle

NextMain ==
    \/ GenerateReportBegin
    \/ GenerateReportStep
    \/ GenerateReportEnd
    \/ MainReport

SpecMain == InitMain /\ [][NextMain]_vars

----------------------------------------------------------------------------
(* Claims: helpers *)

\* a get_repo_stats call in API mode that returned
Returned(call) ==
    /\ call.op = "get_repo_stats"
    /\ ~call.cfg.dbonly
    /\ call.raised = "none"

\* the whole days in x ticks
FloorDays(x) ==
    CHOOSE d \in 0 .. x : d * TicksPerDay <= x /\ x < (d + 1) * TicksPerDay

\* the age in whole days of each request of a call
AgesOf(call) ==
    [i \in 1 .. Len(call.prs) |-> FloorDays(call.at - call.prs[i].created_at)]

RECURSIVE SumOver(_, _)
SumOver(f, S) ==
    IF S = {} THEN 0
    ELSE LET x == CHOOSE y \in S : TRUE IN f[x] + SumOver(f, S \ {x})

\* the number v is the mean of count values that add up to total
IsMean(v, total, count) == v.n * count = total * v.d

IsZero(v) == v.n = 0

OrdersOf(n) ==
    {p \in [1 .. n -> 1 .. n] : \A i, j \in 1 .. n : i # j => p[i] # p[j]}

\* the day whose ticks include t
OnDayOf(day, t) == day * TicksPerDay <= t /\ t < (day + 1) * TicksPerDay

\* the table holds a row of the repository, dated the day of t, with the
\* nine persisted values of the snapshot
RowSavedFor(repo_name, stats, t) ==
    \E r \in db :
        /\ r.repo_name = repo_name
        /\ OnDayOf(r.date, t)
        /\ r.oldest_pr_title = stats.oldest_pr_title
        /\ \A f \in NumericFields : PyEq(r[f], stats[f])

----------------------------------------------------------------------------
(* Claims about get_repo_stats and generate_report (Spec) *)

\* C1: a get_repo_stats call in API mode that returns has called save_stats
\* exactly once, with the repository name, the returned snapshot and no date
\* (so the row is dated today), on the empty and on the non-empty path; a
\* generate_report that returns has made one such call per configured
\* repository.
C1_SavesOnce ==
    /\ Returned(last) =>
          /\ last.saves = << <<last.repo_name, last.result[1], None>> >>
          /\ RowSavedFor(last.repo_name, last.result[1], last.at)
    /\ (last.op = "generate_report" /\ ~last.cfg.dbonly /\ last.raised = "none") =>
          /\ Len(last.saves) = Len(ConfigRepos)
          /\ Len(last.result[1]) = Len(ConfigRepos)
          /\ \A i \in 1 .. Len(ConfigRepos) :
                last.saves[i] = <<ConfigRepos[i], last.result[1][i][2], None>>

\* a report over a repository without and a repository with open requests
C1_Witness ==
    /\ last.op = "generate_report"
    /\ ~last.cfg.dbonly
    /\ last.raised = "none"
    /\ \E i, j \in 1 .. Len(ConfigRepos) :
          /\ github[ConfigRepos[i]] = <<>>
          /\ github[ConfigRepos[j]] # <<>>
    /\ Cardinality(db) = Len(ConfigRepos)

----------------------------------------------------------------------------
(* Claims about the aggregation (SpecAgg) *)

\* C4: for a repository without open requests get_repo_stats returns a
\* snapshot whose numeric fields are all 0, whose oldest_pr_title is empty
\* and whose detail list is the empty list, and saves that snapshot.
C4_EmptyInput ==
    (last.op = "get_repo_stats" /\ ~last.cfg.dbonly /\ last.prs = <<>>) =>
        /\ last.raised = "none"
        /\ \A f \in NumericFields \cup {"reopened_prs"} : IsZero(last.result[1][f])
        /\ last.result[1].oldest_pr_title = ""
        /\ last.result[1].zero_comment_prs = Some(<<>>)
        /\ Len(last.saves) = 1
        /\ last.saves[1][2] = last.result[1]
        /\ RowSavedFor(last.repo_name, last.result[1], last.at)

\* the call on a repository without open requests has returned and saved
C4_Witness ==
    /\ Returned(last)
    /\ last.prs = <<>>
    /\ db # {}

\* C5: for a non-empty list avg_age_days is the arithmetic mean of the
\* whole-day ages and total_prs the number of requests, and both are the
\* same for every order of the list.
C5_AvgAge ==
    (Returned(last) /\ last.prs # <<>>) =>
        LET n    == Len(last.prs)
            ages == AgesOf(last)
            s    == last.result[1]
        IN  /\ s.total_prs = PyInt(n)
            /\ IsMean(s.avg_age_days, SumOver(ages, 1 .. n), n)
            /\ \A p \in OrdersOf(n) :
                  LET o == get_repo_stats(last.repo_name, last.cfg, {},
                                          [i \in 1 .. n |-> last.prs[p[i]]],
                                          last.at)
                  IN  /\ o.result[1].avg_age_days = s.avg_age_days
                      /\ o.result[1].total_prs = s.total_prs

\* two requests of different ages whose mean age is not a whole number
C5_Witness ==
    /\ Returned(last)
    /\ Len(last.prs) >= 2
    /\ \E i, j \in 1 .. Len(last.prs) : AgesOf(last)[i] < AgesOf(last)[j]
    /\ last.result[1].avg_age_days.d > 1

\* C6: avg_age_days_excluding_oldest is 0 for a single request; for two or
\* more it is the mean of the ages strictly below the oldest age (every
\* request of the oldest age is left out), and 0 when there is no such age.
C6_AvgExcludingOldest ==
    (Returned(last) /\ last.prs # <<>>) =>
        LET n       == Len(last.prs)
            ages    == AgesOf(last)
            oldest  == CHOOSE m \in {ages[i] : i \in 1 .. n} :
                          \A i \in 1 .. n : ages[i] <= m
            younger == {i \in 1 .. n : ages[i] < oldest}
            avg     == last.result[1].avg_age_days_excluding_oldest
        IN  IF n = 1 \/ younger = {}
            THEN IsZero(avg)
            ELSE IsMean(avg, SumOver(ages, younger), Cardinality(younger))

\* several requests, a younger one among them, and an average that is not 0
C6_Witness ==
    /\ Returned(last)
    /\ Len(last.prs) >= 2
    /\ ~IsZero(last.result[1].avg_age_days_excluding_oldest)

\* C7: in detail mode a request is on the zero-comment detail list exactly
\* when it has no comment, is at least min_age_days old and carries the
\* label 'Ready for Review'; every request without comments is counted in
\* prs_with_zero_comments in any mode, so the list is never longer than
\* that count.
C7_ZeroCommentList ==
    (Returned(last) /\ last.prs # <<>>) =>
        LET n      == Len(last.prs)
            ages   == AgesOf(last)
            s      == last.result[1]
            silent == {i \in 1 .. n : last.prs[i].comments = 0}
            due    == {i \in silent :
                          /\ ages[i] >= last.cfg.min_age_days
                          /\ ReadyLabel \in last.prs[i].labels}
        IN  /\ s.prs_with_zero_comments = PyInt(Cardinality(silent))
            /\ last.cfg.verbose =>
                  /\ s.zero_comment_prs # None
                  /\ Len(s.zero_comment_prs[1]) = Cardinality(due)
                  /\ \A i \in 1 .. n :
                        i \in due <=>
                           \E k \in 1 .. Len(s.zero_comment_prs[1]) :
                              s.zero_comment_prs[1][k] =
                                 PRDetail(last.prs[i].title, ages[i],
                                          last.prs[i].html_url)
                  /\ Len(s.zero_comment_prs[1]) <= s.prs_with_zero_comments.n

\* detail mode with a minimum age: one request without comments is listed,
\* another is counted but too young to be listed
C7_Witness ==
    /\ Returned(last)
    /\ last.cfg.verbose
    /\ last.cfg.min_age_days > 0
    /\ last.result[1].prs_with_zero_comments.n = 2
    /\ Len(last.result[1].zero_comment_prs[1]) = 1
    /\ \E i \in 1 .. Len(last.prs) :
          /\ last.prs[i].comments = 0
          /\ ReadyLabel \in last.prs[i].labels
          /\ AgesOf(last)[i] < last.cfg.min_age_days

----------------------------------------------------------------------------
(* Claims about the store (SpecStore) *)

\* the dictionary d holds the date and the nine persisted values of stats
SameSnapshot(d, date, stats) ==
    /\ d.date = date
    /\ d.oldest_pr_title = stats.oldest_pr_title
    /\ \A f \in NumericFields : PyEq(d[f], stats[f])

\* C2: get_stats_for_date(repo, date) made after save_stats(repo, s, date),
\* with no later save to that key, returns a row of that date whose nine
\* persisted fields equal those of s.
C2_RoundTrip ==
    /\ \A key \in DOMAIN saved :
          LET got == get_stats_for_date(db, key[1], key[2])
          IN  got # None /\ SameSnapshot(got[1], key[2], saved[key])
    /\ (last.op = "get_stats_for_date"
            /\ <<last.repo_name, last.date>> \in DOMAIN saved) =>
          /\ last.result # None
          /\ SameSnapshot(last.result[1], last.date,
                          saved[<<last.repo_name, last.date>>])

\* a read that returned the snapshot saved under its key, with other keys
\* saved as well
C2_Witness ==
    /\ last.op = "get_stats_for_date"
    /\ last.result # None
    /\ <<last.repo_name, last.date>> \in DOMAIN saved
    /\ Cardinality(DOMAIN saved) >= 2

\* C3: the table holds at most one row per (repo_name, date), and every
\* field of that row is the field of the most recent save to that key.
C3_LastWriteWins ==
    /\ \A r1, r2 \in db :
          (r1.repo_name = r2.repo_name /\ r1.date = r2.date) => r1 = r2
    /\ \A r \in db :
          /\ <<r.repo_name, r.date>> \in DOMAIN saved
          /\ r.oldest_pr_title = saved[<<r.repo_name, r.date>>].oldest_pr_title
          /\ \A f \in NumericFields :
                PyEq(r[f], saved[<<r.repo_name, r.date>>][f])
    /\ \A key \in DOMAIN saved :
          \E r \in db : r.repo_name = key[1] /\ r.date = key[2]

\* a save to a key that held the row of a different snapshot
C3_Witness ==
    /\ last.op = "save_stats"
    /\ \E r \in last.prior : ~PyEq(r.total_prs, last.stats.total_prs)
    /\ Cardinality(db) >= 2

----------------------------------------------------------------------------
(* Claims about the no-recent-activity list (SpecStale) *)

\* a returned call of a reporter with the threshold configured
StaleCall(call) == Returned(call) /\ call.cfg.no_update_days # None

\* request i of the call is on its no-recent-activity list
OnStaleList(call, i) ==
    \E k \in 1 .. Len(call.no_update_prs[1]) :
        /\ call.no_update_prs[1][k].url = call.prs[i].html_url
        /\ call.no_update_prs[1][k].title = call.prs[i].title

\* the lookup of the comment events of request i failed or found nothing
NoCommentFound(call, i) ==
    call.prs[i].issue_comments = None \/ call.prs[i].issue_comments = Some(<<>>)

\* the whole days since the newest comment event of request i, and the
\* whole days since its creation when no comment was found
ActivityDays(call, i) ==
    IF NoCommentFound(call, i)
    THEN AgesOf(call)[i]
    ELSE LET ts     == call.prs[i].issue_comments[1]
             newest == CHOOSE x \in {ts[k] : k \in 1 .. Len(ts)} :
                          \A k \in 1 .. Len(ts) : ts[k] <= x
         IN  FloorDays(call.at - newest)

\* C8: with the threshold T configured, a request without the do-not-merge
\* label is on the no-recent-activity list exactly when its lastActivityDays
\* and the age in days of its last push are both at least T.
C8_StaleIffCommentAndPushOld ==
    StaleCall(last) =>
        /\ last.no_update_prs # None
        /\ \A i \in 1 .. Len(last.prs) :
              DoNotMergeLabel \notin last.prs[i].labels =>
                 (OnStaleList(last, i) <=>
                    /\ ActivityDays(last, i) >= last.cfg.no_update_days[1]
                    /\ FloorDays(last.at - last.prs[i].updated_at)
                          >= last.cfg.no_update_days[1])

\* one request is listed; another, whose last comment is as old but whose
\* last push is recent, is not
C8_Witness ==
    /\ StaleCall(last)
    /\ \E i, j \in 1 .. Len(last.prs) :
          /\ OnStaleList(last, i)
          /\ ~OnStaleList(last, j)
          /\ DoNotMergeLabel \notin last.prs[j].labels
          /\ ~NoCommentFound(last, j)
          /\ ActivityDays(last, j) >= last.cfg.no_update_days[1]
          /\ FloorDays(last.at - last.prs[j].updated_at) < last.cfg.no_update_days[1]

\* C9: a request with the label 'DO NOT MERGE' is never on the
\* no-recent-activity list, and it is counted in total_prs.
C9_DoNotMergeNeverStale ==
    StaleCall(last) =>
        /\ last.result[1].total_prs = PyInt(Len(last.prs))
        /\ \A i \in 1 .. Len(last.prs) :
              "DO NOT MERGE" \in last.prs[i].labels => ~OnStaleList(last, i)

\* a labelled request whose comment and push are both old is not listed,
\* next to an unlabelled request that is
C9_Witness ==
    /\ StaleCall(last)
    /\ last.result[1].total_prs = PyInt(2)
    /\ \E i, j \in 1 .. Len(last.prs) :
          /\ "DO NOT MERGE" \in last.prs[i].labels
          /\ ActivityDays(last, i) >= last.cfg.no_update_days[1]
          /\ FloorDays(last.at - last.prs[i].updated_at) >= last.cfg.no_update_days[1]
          /\ ~OnStaleList(last, i)
          /\ OnStaleList(last, j)

\* C10: when the lookup of the comment events of a request fails or finds
\* nothing, the request is judged by its age in days since creation; the
\* call still returns a snapshot over all the requests and saves it.
C10_CommentLookupFallback ==
    (last.op = "get_repo_stats" /\ ~last.cfg.dbonly
        /\ last.cfg.no_update_days # None
        /\ \E i \in 1 .. Len(last.prs) : NoCommentFound(last, i)) =>
        /\ last.raised = "none"
        /\ last.result # None
        /\ last.result[1].total_prs = PyInt(Len(last.prs))
        /\ last.saves = << <<last.repo_name, last.result[1], None>> >>
        /\ RowSavedFor(last.repo_name, last.result[1], last.at)
        /\ last.no_update_prs # None
        /\ \A i \in 1 .. Len(last.prs) :
              (NoCommentFound(last, i) /\ DoNotMergeLabel \notin last.prs[i].labels) =>
                 /\ OnStaleList(last, i) <=>
                       /\ AgesOf(last)[i] >= last.cfg.no_update_days[1]
                       /\ FloorDays(last.at - last.prs[i].updated_at)
                             >= last.cfg.no_update_days[1]
                 /\ \A k \in 1 .. Len(last.no_update_prs[1]) :
                       last.no_update_prs[1][k].url = last.prs[i].html_url =>
                          last.no_update_prs[1][k].last_comment_days = AgesOf(last)[i]

\* the lookup of one request raised and the request is listed by its age,
\* while a request whose lookup succeeded was judged by its comments
C10_Witness ==
    /\ StaleCall(last)
    /\ db # {}
    /\ \E i, j \in 1 .. Len(last.prs) :
          /\ last.prs[i].issue_comments = None
          /\ OnStaleList(last, i)
          /\ ~NoCommentFound(last, j)
          /\ ~OnStaleList(last, j)
          /\ DoNotMergeLabel \notin last.prs[j].labels

----------------------------------------------------------------------------
(* Claims about the read operations of the store (SpecQuery) *)

\* the dates of the rows the table holds for a repository
DatesOf(repo_name) == {r.date : r \in {q \in db : q.repo_name = repo_name}}

\* the result is the dictionary of the row of the repository dated day: its
\* date and, under Python's ==, the values of that row
IsRowOf(result, repo_name, day) ==
    /\ result # None
    /\ result[1].date = day
    /\ \E r \in db :
          /\ r.repo_name = repo_name
          /\ r.date = day
          /\ result[1].oldest_pr_title = r.oldest_pr_title
          /\ \A f \in NumericFields : PyEq(result[1][f], r[f])

\* what the comparison lookup is to return for the dates before the day of
\* the target: the row of the greatest such date, else the row of the
\* smallest date of the repository, else nothing
ComparisonAnswer(result, repo_name, target_day) ==
    LET all    == DatesOf(repo_name)
        before == {d \in all : d < target_day}
    IN  IF before # {}
        THEN \E d \in before :
                (\A e \in before : e <= d) /\ IsRowOf(result, repo_name, d)
        ELSE IF all # {}
             THEN \E d \in all :
                     (\A e \in all : d <= e) /\ IsRowOf(result, repo_name, d)
             ELSE result = None

\* the comparison lookup of a reporter built with a number of days
ComparisonCall(call) ==
    call.op = "_get_comparison_stats" /\ call.cfg.compare_days # None

\* C11: for every non-negative number of comparison days the lookup returns
\* the most recent snapshot dated before (now minus the days), else the
\* earliest snapshot of the repository, and nothing only when the repository
\* has no row.
C11_ComparisonLookup ==
    ComparisonCall(last) =>
        ComparisonAnswer(last.result, last.repo_name,
                         FloorDays(last.at) - last.cfg.compare_days[1])

\* the same for the numbers of days from 1 on, where the code agrees
C11_PositiveDays ==
    (ComparisonCall(last) /\ last.cfg.compare_days[1] >= 1) =>
        ComparisonAnswer(last.result, last.repo_name,
                         FloorDays(last.at) - last.cfg.compare_days[1])

\* C12: get_stats_before_date returns the row of the repository with the
\* greatest date earlier than the day of the target; never a row dated on
\* that day, never a row of another repository; nothing, and no error, when
\* there is no such row.
C12_BeforeDate ==
    last.op = "get_stats_before_date" =>
        LET day    == FloorDays(last.target_date)
            before == {d \in DatesOf(last.repo_name) : d < day}
        IN  IF before = {}
            THEN last.result = None
            ELSE /\ last.result # None
                 /\ last.result[1].date # day
                 /\ last.result[1].date \in before
                 /\ \A e \in before : e <= last.result[1].date
                 /\ IsRowOf(last.result, last.repo_name, last.result[1].date)

\* a row of an earlier day is returned while the repository has a row dated
\* on the day of the target and a row earlier than the one returned, and the
\* other repository a row dated after the one returned
C12_Witness ==
    /\ last.op = "get_stats_before_date"
    /\ last.result # None
    /\ FloorDays(last.target_date) \in DatesOf(last.repo_name)
    /\ \E d \in DatesOf(last.repo_name) : d < last.result[1].date
    /\ \E q \in Repos \ {last.repo_name} :
          \E d \in DatesOf(q) :
             last.result[1].date < d /\ d <= FloorDays(last.target_date)

\* C13: get_latest_stats returns the row of the repository with the greatest
\* date and get_earliest_stats the row with the smallest date; each returns
\* nothing exactly when the repository has no row, and get_stats_for_date
\* returns nothing for a repository and date without a row.
C13_LatestEarliest ==
    /\ last.op = "get_latest_stats" =>
          /\ (last.result = None) <=> (DatesOf(last.repo_name) = {})
          /\ last.result # None =>
                /\ \A d \in DatesOf(last.repo_name) : d <= last.result[1].date
                /\ IsRowOf(last.result, last.repo_name, last.result[1].date)
    /\ last.op = "get_earliest_stats" =>
          /\ (last.result = None) <=> (DatesOf(last.repo_name) = {})
          /\ last.result # None =>
                /\ \A d \in DatesOf(last.repo_name) : last.result[1].date <= d
                /\ IsRowOf(last.result, last.repo_name, last.result[1].date)
    /\ last.op = "get_stats_for_date" =>
          /\ (last.result = None) <=> (last.date \notin DatesOf(last.repo_name))
          /\ last.result # None => IsRowOf(last.result, last.repo_name, last.date)

\* the latest of several rows of a repository is returned, while the other
\* repository has a row of a later day
C13_Witness ==
    /\ last.op = "get_latest_stats"
    /\ last.result # None
    /\ Cardinality(DatesOf(last.repo_name)) >= 2
    /\ \E q \in Repos \ {last.repo_name} :
          \E d \in DatesOf(q) : d > last.result[1].date

----------------------------------------------------------------------------
(* Claims about the schema migration (SpecMigrate) *)

\* the row q is the row r with the columns of added set to zero or to the
\* empty text, and every column of r as it was
Extends(q, r, added) ==
    /\ DOMAIN q = DOMAIN r \cup added
    /\ \A c \in DOMAIN r : q[c] = r[c]
    /\ \A c \in added :
          IF c = "oldest_pr_title" THEN q[c] = "" ELSE IsZero(q[c])

\* C14: a migration of a table that lacks any of the later columns adds the
\* missing ones, zero or the empty text in every existing row, and leaves the
\* other values of every row as they were; a migration of a table that lacks
\* none changes neither the columns nor a row; no migration raises.
C14_MigrationAdditiveIdempotent ==
    last.op = "_migrate_schema" =>
        LET added == AllColumns \ last.columns_before
        IN  /\ ~last.raised
            /\ columns = AllColumns
            /\ last.columns_before \subseteq columns
            /\ \A r \in last.rows_before : \E q \in db : Extends(q, r, added)
            /\ \A q \in db : \E r \in last.rows_before : Extends(q, r, added)
            /\ Cardinality(db) = Cardinality(last.rows_before)
            /\ added = {} => db = last.rows_before

\* a second migration, of a table whose rows an earlier migration extended
C14_Witness ==
    /\ last.op = "_migrate_schema"
    /\ last.columns_before = AllColumns
    /\ last.rows_before = db
    /\ Cardinality(db) >= 2
    /\ \E q \in db : q.oldest_pr_title # "" /\ IsZero(q.oldest_pr_age)

----------------------------------------------------------------------------
(* Claims about the dbonly mode (Spec) *)

\* a get_repo_stats call of a dbonly reporter
StoreOnlyCall(call) == call.op = "get_repo_stats" /\ call.cfg.dbonly

\* the table holds a row of the repository dated the day of t
HasRowOn(repo_name, t) ==
    \E r \in db : r.repo_name = repo_name /\ OnDayOf(r.date, t)

StoreOnlyOutcome ==
    StoreOnlyCall(last) =>
        /\ last.api_calls = 0
        /\ last.saves = <<>>
        /\ ~HasRowOn(last.repo_name, last.at) =>
              (last.raised = "ValueError" /\ last.result = None)
        /\ HasRowOn(last.repo_name, last.at) =>
              (last.raised = "none" /\ last.result # None)

\* C15: in dbonly mode get_repo_stats for a repository without a row dated
\* today raises ValueError; with or without data it makes no call to the
\* remote API and no step of a dbonly reporter changes the table.
C15_StoreOnly ==
    /\ []StoreOnlyOutcome
    /\ [][(cfg.dbonly /\ cfg' = cfg) => (db' = db /\ saved' = saved)]_vars

\* a dbonly call that raised for one repository while the table holds
\* today's row of the other
C15_Witness ==
    /\ StoreOnlyCall(last)
    /\ last.raised = "ValueError"
    /\ db # {}
    /\ Len(last.prs) > 0

----------------------------------------------------------------------------
(* Claims about the closed-request analysis (SpecReopen) *)

\* the requests analyze_repo counts: those before the first one closed
\* earlier than the start of the window
Counted(call) ==
    {i \in 1 .. Len(call.prs) :
        \A j \in 1 .. i :
            call.prs[j].closed_at + call.cfg.days * TicksPerDay >= call.at}

\* an event of kind 'reopened' dated inside the window is met on the timeline
ReopenSeen(call, i) ==
    /\ call.prs[i].events # None
    /\ \E k \in 1 .. Len(call.prs[i].events.items) :
          LET ev == call.prs[i].events.items[k]
          IN  /\ ev.event = "reopened"
              /\ ev.created_at + call.cfg.days * TicksPerDay >= call.at
              /\ ev.created_at <= call.at

\* retrieving or iterating the timeline of the request raises
LookupRaises(call, i) ==
    \/ call.prs[i].events = None
    \/ (call.prs[i].events.fails /\ ~ReopenSeen(call, i))

\* C16: each counted request adds 1 to reopened_count exactly when one of its
\* timeline events is a reopening dated inside the window, and never more
\* than 1; reopened_count never exceeds total_closed.
C16_ReopenedOncePerRequest ==
    last.op = "analyze_repo" =>
        /\ last.result.total_closed = Cardinality(Counted(last))
        /\ last.result.reopened_count =
              Cardinality({i \in Counted(last) : ReopenSeen(last, i)})
        /\ last.result.reopened_count <= last.result.total_closed

\* a counted request with two reopenings inside the window counts once, next
\* to a counted request reopened only before the window
C16_Witness ==
    /\ last.op = "analyze_repo"
    /\ last.result.total_closed = 2
    /\ last.result.reopened_count = 1
    /\ \E i \in Counted(last) :
          /\ last.prs[i].events # None
          /\ Len(last.prs[i].events.items) = 2
          /\ \A k \in 1 .. 2 :
                /\ last.prs[i].events.items[k].event = "reopened"
                /\ last.prs[i].events.items[k].created_at >= WindowStart
    /\ \E j \in Counted(last) :
          /\ last.prs[j].events # None
          /\ last.prs[j].events.items = <<Event("reopened", WindowStart - 1)>>

\* C17: a counted request whose timeline lookup raises adds nothing to
\* reopened_count and is counted in total_closed and in the cycle-time
\* statistics; the result is the one of the same requests with an empty
\* timeline in its place.
C17_LookupFailureDegrades ==
    last.op = "analyze_repo" =>
        \A i \in Counted(last) :
            LookupRaises(last, i) =>
                /\ last.result.total_closed = Cardinality(Counted(last))
                /\ last.result.reopened_count =
                      Cardinality({j \in Counted(last) \ {i} : ReopenSeen(last, j)})
                /\ last.result =
                      analyze_repo(last.repo_name, last.cfg,
                                   [last.prs EXCEPT ![i].events = NoClosedEvents],
                                   last.at)

\* the lookup of the first request raises and the second request, reopened
\* inside the window, is counted
C17_Witness ==
    /\ last.op = "analyze_repo"
    /\ Len(last.prs) = 2
    /\ last.prs[1].events = None
    /\ ReopenSeen(last, 2)
    /\ last.result.total_closed = 2
    /\ last.result.reopened_count = 1

----------------------------------------------------------------------------
(* Claims about the closed-request statistics (SpecClosed) *)

\* a reported standard deviation is 0
StdIsZero(v) == IF "sqrt_of" \in DOMAIN v THEN v.sqrt_of.n = 0 ELSE v.n = 0

\* a reported standard deviation is the square root of num / den
StdIsSqrtOf(v, num, den) ==
    /\ "sqrt_of" \in DOMAIN v
    /\ v.sqrt_of.n * den = num * v.sqrt_of.d

\* the number of closed requests of all repositories inside the window
InWindowTotal(call) ==
    Len(AllDaysFrom(1, call.cfg.days, call.world, call.at))

\* C18: wherever the analysis reports a standard deviation, fewer than two
\* values give 0 and nothing is raised; a report over exactly one closed
\* request is produced and printed without failure.
C18_StdevOfFewerThanTwo ==
    /\ last.op = "analyze_repo" =>
          /\ last.result.total_closed < 2 => StdIsZero(last.result.std_dev_days)
          /\ last.result.user_total_closed < 2 =>
                StdIsZero(last.result.user_std_dev_days)
    /\ last.op = "print_report" => last.printed.raised = "none"

\* the same for analyze_repo alone, where the code agrees
C18_AnalyzeRepoOnly ==
    last.op = "analyze_repo" =>
        /\ last.result.total_closed < 2 => StdIsZero(last.result.std_dev_days)
        /\ last.result.user_total_closed < 2 =>
              StdIsZero(last.result.user_std_dev_days)

\* no identity is requested: user_login is absent or the empty string
NoIdentity(who) == who \in {None, Some("")}

\* a specific login is requested: a non-empty string other than 'all'
SpecificLogin(who) == who \notin {None, Some(""), Some("all")}

\* print_report raises exactly when it is to print the standard deviation of
\* a single value: one closed request in all, or one request of the user
C18_PrintReportRaises ==
    last.op = "print_report" =>
        ((last.printed.raised = "StatisticsError") <=>
            /\ ~last.cfg.debug
            /\ \/ InWindowTotal(last) = 1
               \/ /\ SpecificLogin(last.cfg.user_login)
                  /\ SumSeq([i \in 1 .. Len(last.report) |->
                                last.report[i].user_total_closed]) = 1)

\* the durations of the counted requests of a call, in days
DurationsOf(call) ==
    [i \in 1 .. Len(call.prs) |->
        PyFloat(call.prs[i].closed_at - call.prs[i].created_at, TicksPerDay)]

\* the counted requests of the call were open for a and for b days
TwoValues(call, a, b) ==
    /\ call.op = "analyze_repo"
    /\ Len(call.prs) = 2
    /\ Counted(call) = {1, 2}
    /\ PyEq(DurationsOf(call)[1], PyInt(a))
    /\ PyEq(DurationsOf(call)[2], PyInt(b))

\* C19 as stated: the standard deviation of the two values 4 and 8 is 2.0
\* (the variance 4), and of two equal values 0.
C19_StdevOfFourAndEight ==
    /\ TwoValues(last, 4, 8) => StdIsSqrtOf(last.result.std_dev_days, 4, 1)
    /\ (last.op = "analyze_repo" /\ Len(last.prs) = 2 /\ Counted(last) = {1, 2}
          /\ PyEq(DurationsOf(last)[1], DurationsOf(last)[2])) =>
             StdIsZero(last.result.std_dev_days)

\* C19 amended: the standard deviation of the two values 4 and 8 is the square
\* root of 8 (the sample variance, the squares divided by n - 1 = 1), about
\* 2.83, and of two equal values 0.
C19_SampleStdev ==
    /\ (TwoValues(last, 4, 8) \/ TwoValues(last, 8, 4)) =>
          /\ StdIsSqrtOf(last.result.std_dev_days, 8, 1)
          /\ PyEq(last.result.avg_days_open, PyInt(6))
    /\ (last.op = "analyze_repo" /\ Len(last.prs) = 2 /\ Counted(last) = {1, 2}
          /\ PyEq(DurationsOf(last)[1], DurationsOf(last)[2])) =>
             StdIsZero(last.result.std_dev_days)

\* an analysis of two requests open for 4 and for 8 days
C19_Witness ==
    /\ TwoValues(last, 4, 8)
    /\ last.result.total_closed = 2

\* the counted requests of a call whose author has the login
AuthoredBy(call, login) ==
    {i \in Counted(call) :
        IF call.prs[i].user = None THEN login = "N/A"
        ELSE call.prs[i].user[1] = login}

\* the author logins of the counted requests ('N/A' for a missing author)
AuthorsOf(call) ==
    {IF call.prs[i].user = None THEN "N/A" ELSE call.prs[i].user[1] :
        i \in Counted(call)}

\* the list is the durations of the requests of the set, in their order
IsDurationsOf(list, call, S) ==
    /\ Len(list) = Cardinality(S)
    /\ \E idx \in [1 .. Len(list) -> S] :
          /\ \A a, b \in 1 .. Len(list) : a < b => idx[a] < idx[b]
          /\ \A a \in 1 .. Len(list) : list[a] = DurationsOf(call)[idx[a]]

\* C20: with the identity 'all', user_stats maps every author login of the
\* counted requests to that author's durations and user_total_closed is 0;
\* with a specific login, user_stats is None and user_total_closed is the
\* number of counted requests of that login; with no identity (no login or
\* the empty string, whatever the logins of the authors), user_stats is None
\* and user_total_closed is 0.
C20_IdentityModesExclusive ==
    last.op = "analyze_repo" =>
        LET res == last.result
            who == last.cfg.user_login
        IN  /\ who = Some("all") =>
                  /\ res.user_stats # None
                  /\ DOMAIN res.user_stats[1] = AuthorsOf(last)
                  /\ \A l \in AuthorsOf(last) :
                        IsDurationsOf(res.user_stats[1][l], last, AuthoredBy(last, l))
                  /\ SumOver([l \in AuthorsOf(last) |-> Len(res.user_stats[1][l])],
                             AuthorsOf(last)) = res.total_closed
                  /\ res.user_total_closed = 0
            /\ SpecificLogin(who) =>
                  /\ res.user_stats = None
                  /\ res.user_total_closed =
                        Cardinality({i \in AuthoredBy(last, who[1]) :
                                        last.prs[i].user # None})
                  /\ res.user_total_closed <= res.total_closed
            /\ NoIdentity(who) =>
                  /\ res.user_stats = None
                  /\ res.user_total_closed = 0
                  /\ IsZero(res.user_avg_days_open)

\* with 'all', two requests of two authors, one of them without a login
C20_Witness ==
    /\ last.op = "analyze_repo"
    /\ last.cfg.user_login = Some("all")
    /\ last.result.total_closed = 2
    /\ last.result.user_stats # None
    /\ DOMAIN last.result.user_stats[1] = {"user1", "N/A"}

\* with the empty string as identity, a counted request whose author has the
\* empty login is not taken as the user's
C20_WitnessEmptyLogin ==
    /\ last.op = "analyze_repo"
    /\ last.cfg.user_login = Some("")
    /\ \E i \in Counted(last) : last.prs[i].user = Some("")
    /\ last.result.user_total_closed = 0

----------------------------------------------------------------------------
(* Claims about the comment averages and the detail list (SpecAgg) *)

\* the requests of a call that have at least one comment
Commented(call) == {i \in 1 .. Len(call.prs) : call.prs[i].comments > 0}

\* the comment count of each request of a call
CommentsOf(call) == [i \in 1 .. Len(call.prs) |-> call.prs[i].comments]

\* C21: avg_comments is the mean of the comment counts of all open requests;
\* avg_comments_with_comments is the mean of the comment counts of the
\* requests that have a comment, and 0 when none has; prs_with_zero_comments
\* plus the number of requests with a comment is total_prs.
C21_CommentAverages ==
    (Returned(last) /\ last.prs # <<>>) =>
        LET n      == Len(last.prs)
            counts == CommentsOf(last)
            with   == Commented(last)
            s      == last.result[1]
        IN  /\ IsMean(s.avg_comments, SumOver(counts, 1 .. n), n)
            /\ IF with = {}
               THEN IsZero(s.avg_comments_with_comments)
               ELSE IsMean(s.avg_comments_with_comments,
                           SumOver(counts, with), Cardinality(with))
            /\ s.prs_with_zero_comments.n + Cardinality(with) = s.total_prs.n

\* a request with a comment next to one without: the two averages differ
C21_Witness ==
    /\ Returned(last)
    /\ Commented(last) # {}
    /\ Commented(last) # 1 .. Len(last.prs)
    /\ ~PyEq(last.result[1].avg_comments,
             last.result[1].avg_comments_with_comments)

\* the ages on a detail list never increase
NonIncreasing(list) ==
    \A k \in 1 .. Len(list) - 1 : list[k].age_days >= list[k + 1].age_days

\* C22: in detail mode the zero-comment detail list returned by
\* get_repo_stats is ordered by non-increasing age, for every order of the
\* requests; without detail mode and with requests the list is None.
C22_DetailListSorted ==
    (Returned(last) /\ last.prs # <<>>) =>
        LET n == Len(last.prs)
            s == last.result[1]
        IN  IF last.cfg.verbose
            THEN /\ s.zero_comment_prs # None
                 /\ NonIncreasing(s.zero_comment_prs[1])
                 /\ \A p \in OrdersOf(n) :
                       LET o == get_repo_stats(last.repo_name, last.cfg, {},
                                               [i \in 1 .. n |-> last.prs[p[i]]],
                                               last.at)
                       IN  /\ o.result[1].zero_comment_prs # None
                           /\ NonIncreasing(o.result[1].zero_comment_prs[1])
            ELSE s.zero_comment_prs = None

\* two listed requests, the younger one first in the input
C22_Witness ==
    /\ Returned(last)
    /\ last.cfg.verbose
    /\ Len(last.result[1].zero_comment_prs[1]) >= 2
    /\ \E i, j \in 1 .. Len(last.prs) :
          /\ i < j
          /\ AgesOf(last)[i] < AgesOf(last)[j]
          /\ last.prs[i].comments = 0 /\ last.prs[j].comments = 0
          /\ last.result[1].zero_comment_prs[1][1].title = last.prs[j].title
          /\ last.result[1].zero_comment_prs[1][2].title = last.prs[i].title

----------------------------------------------------------------------------
(* Claims about the presentation of a comparison (SpecCompare) *)

Increased(call) == call.current.n * call.previous.d > call.previous.n * call.current.d
Decreased(call) == call.current.n * call.previous.d < call.previous.n * call.current.d

\* the previous value follows the current one, in parentheses
ShowsPrevious(call) ==
    call.result.previous = Some(Format(call.digits, call.previous))

\* C23: comparing a current with a previous value gives exactly one of
\* three outcomes: red with the previous value shown exactly when
\* current > previous, green with the previous value shown exactly when
\* current < previous, and no colour and no previous value exactly when
\* the two are equal.
C23_ThreeOutcomes ==
    last.op = "_format_comparison" =>
        LET text  == last.result
            red   == text.colour = Colors.RED /\ ShowsPrevious(last)
            green == text.colour = Colors.GREEN /\ ShowsPrevious(last)
            plain == text.colour = "" /\ text.reset = "" /\ text.previous = None
        IN  /\ red <=> Increased(last)
            /\ green <=> Decreased(last)
            /\ plain <=> (~Increased(last) /\ ~Decreased(last))
            /\ ~(red /\ green) /\ ~(red /\ plain) /\ ~(green /\ plain)
            /\ red \/ green \/ plain
            /\ text.current = Format(last.digits, last.current)

\* a count compared with a larger mean that is printed with the same digits
C23_Witness ==
    /\ last.op = "_format_comparison"
    /\ last.current.k = "int" /\ last.previous.k = "float"
    /\ Decreased(last)
    /\ last.result.colour = Colors.GREEN
    /\ last.result.previous = Some(last.result.current)

\* the digits of values half way between two tenths: 0.35 against 0.45 reads
\* "0.3 (0.5)" as the floats lie below and above, 0.25 against 0.75 reads
\* "0.2 (0.8)" as the floats are exact and the even tenth is taken
C23_HalfwayDigits ==
    (last.op = "_format_comparison" /\ last.digits = 1) =>
        /\ (last.current = PyFloat(7, 20) /\ last.previous = PyFloat(9, 20)) =>
              (last.result.current.units = 3
                  /\ last.result.previous = Some([digits |-> 1, units |-> 5]))
        /\ (last.current = PyFloat(1, 20)) => last.result.current.units = 1
        /\ (last.current = PyFloat(1, 4) /\ last.previous = PyFloat(3, 4)) =>
              (last.result.current.units = 2
                  /\ last.result.previous = Some([digits |-> 1, units |-> 8]))

----------------------------------------------------------------------------
(* Claims about the oldest request (SpecAgg) *)

\* the largest of the ages of a call with requests
MaxAge(call) ==
    CHOOSE m \in {AgesOf(call)[i] : i \in 1 .. Len(call.prs)} :
        \A i \in 1 .. Len(call.prs) : AgesOf(call)[i] <= m

\* the first request of the call, in the order of the list, of that age
FirstOfAge(call, age) ==
    CHOOSE i \in 1 .. Len(call.prs) :
        /\ AgesOf(call)[i] = age
        /\ \A j \in 1 .. i - 1 : AgesOf(call)[j] # age

\* oldest_pr_age is the largest age and oldest_pr_title the title of the
\* first request of that age
OldestIsFirstAtMaximum(call) ==
    /\ call.result[1].oldest_pr_age = PyInt(MaxAge(call))
    /\ call.result[1].oldest_pr_title =
           call.prs[FirstOfAge(call, MaxAge(call))].title

\* C24: for every non-empty list of open requests oldest_pr_age is the
\* largest of the ages and oldest_pr_title is the title of the first
\* request, in the order of the list, whose age is that maximum; a later
\* request of the same age never replaces it.
C24_OldestFirstAtMaximum ==
    (Returned(last) /\ last.prs # <<>>) => OldestIsFirstAtMaximum(last)

\* the same, for the lists that hold a request at least one day old
C24_OldestOfADayOrMore ==
    (Returned(last) /\ last.prs # <<>> /\ MaxAge(last) > 0) =>
        OldestIsFirstAtMaximum(last)

\* when no request is a day old, the title stays empty
C24_NoTitleBelowADay ==
    (Returned(last) /\ last.prs # <<>> /\ MaxAge(last) = 0) =>
        /\ last.result[1].oldest_pr_age = PyInt(0)
        /\ last.result[1].oldest_pr_title = ""

----------------------------------------------------------------------------
(* Claims about the window of the closed-request analysis (SpecWindow) *)

\* the requests of a call that were closed inside the window
InWindow(call) ==
    {i \in 1 .. Len(call.prs) :
        call.prs[i].closed_at + call.cfg.days * TicksPerDay >= call.at}

\* the length of the longest leading run of requests closed inside the window
LeadingRun(call) ==
    CHOOSE k \in 0 .. Len(call.prs) :
        /\ 1 .. k \subseteq InWindow(call)
        /\ k < Len(call.prs) => (k + 1) \notin InWindow(call)

\* the list is in the order of descending close time
ByCloseTimeDescending(prs) ==
    \A i \in 1 .. Len(prs) - 1 : prs[i].closed_at >= prs[i + 1].closed_at

\* the durations, in ticks, of the requests of a set
TicksOpen(call) ==
    [i \in 1 .. Len(call.prs) |-> call.prs[i].closed_at - call.prs[i].created_at]

\* C25: analyze_repo counts exactly the requests of the longest leading run
\* of the list that were closed inside the window: it stops at the first
\* request closed before the window starts, and no request after it adds to
\* total_closed, the cycle-time statistics, the per-author data or
\* reopened_count, even when it was closed inside the window.  For a list
\* in descending order of close time these are the requests closed inside
\* the window.
C25_LeadingRunOnly ==
    last.op = "analyze_repo" =>
        LET k    == LeadingRun(last)
            run  == 1 .. k
            res  == last.result
            mine == {i \in run : last.prs[i].user = last.cfg.user_login}
        IN  /\ res.total_closed = k
            /\ res.reopened_count =
                  Cardinality({i \in run : ReopenSeen(last, i)})
            /\ IF k = 0 THEN IsZero(res.avg_days_open)
               ELSE IsMean(res.avg_days_open, SumOver(TicksOpen(last), run),
                           k * TicksPerDay)
            /\ last.cfg.user_login = Some("all") =>
                  /\ DOMAIN res.user_stats[1] = {last.prs[i].user[1] : i \in run}
                  /\ \A l \in DOMAIN res.user_stats[1] :
                        Len(res.user_stats[1][l]) =
                           Cardinality({i \in run : last.prs[i].user[1] = l})
            /\ ~SpecificLogin(last.cfg.user_login) => res.user_total_closed = 0
            /\ SpecificLogin(last.cfg.user_login) =>
                  /\ res.user_total_closed = Cardinality(mine)
                  /\ IF mine = {} THEN IsZero(res.user_avg_days_open)
                     ELSE IsMean(res.user_avg_days_open,
                                 SumOver(TicksOpen(last), mine),
                                 Cardinality(mine) * TicksPerDay)
            /\ res = analyze_repo(last.repo_name, last.cfg,
                                  SubSeq(last.prs, 1, k), last.at)
            /\ ByCloseTimeDescending(last.prs) => run = InWindow(last)

\* a reopened request of the tracked user, closed inside the window, that
\* follows a request closed before the window and so is not counted
C25_Witness ==
    /\ last.op = "analyze_repo"
    /\ last.cfg.user_login = Some("user1")
    /\ \E i \in InWindow(last) :
          /\ i > LeadingRun(last) + 1
          /\ last.prs[i].user = Some("user1")
          /\ ReopenSeen(last, i)
    /\ last.result.total_closed < Cardinality(InWindow(last))
    /\ last.result.reopened_count = 0

----------------------------------------------------------------------------
(* Claims about what the store operations leave alone (SpecFrame) *)

\* the keys of the rows of a table
KeysOf(rows) == {<<r.repo_name, r.date>> : r \in rows}

\* the key a finished save_stats call wrote
SavedKey(call) ==
    <<call.repo_name,
      IF call.date = None THEN strftime(call.at) ELSE call.date[1]>>

StoreReads ==
    {"get_stats_for_date", "get_latest_stats", "get_earliest_stats",
     "get_stats_before_date", "get_stats_in_date_range"}

\* the step of one store operation: no key is removed; a save changes the
\* row of its own key only; a read changes no row; a migration keeps every
\* value a row had; a key that get_stats_for_date finds is found afterwards
FrameStep ==
    /\ KeysOf(db) \subseteq KeysOf(db')
    /\ last'.op = "save_stats" =>
          /\ \A r \in db : <<r.repo_name, r.date>> # SavedKey(last') => r \in db'
          /\ \A r \in db' : <<r.repo_name, r.date>> # SavedKey(last') => r \in db
          /\ SavedKey(last') \in KeysOf(db')
    /\ last'.op \in StoreReads => db' = db
    /\ last'.op = "_migrate_schema" =>
          \A r \in db : \E r2 \in db' : \A c \in DOMAIN r : r2[c] = r[c]
    /\ (columns = AllColumns) =>
          \A k \in KeysOf(db) :
              /\ get_stats_for_date(db, k[1], k[2]) # None
              /\ get_stats_for_date(db', k[1], k[2]) # None

\* C26: save_stats(repo, s, date) changes only the row keyed (repo, date);
\* the row of every other key is left as it was, and no store operation
\* (save, read, migration) removes a key once it is present, so a
\* get_stats_for_date that returned a row never returns absent later.
C26_SaveChangesOneKey == [][FrameStep]_vars

\* a save that replaced the row of its key in a table that holds the rows
\* of another day and of another repository, one of them written by an
\* earlier version and migrated
C26_Witness ==
    /\ last.op = "save_stats"
    /\ last.prior # {}
    /\ \A r \in last.prior : r \notin db
    /\ \E r \in db : r.repo_name = last.repo_name /\ r.date # SavedKey(last)[2]
    /\ \E r \in db : r.repo_name # last.repo_name
    /\ \E r \in db : <<r.repo_name, r.date>> \notin DOMAIN saved

----------------------------------------------------------------------------
(* Claims about failures inside get_repo_stats (SpecRun) *)

\* the review lookup of the i-th request of a call raises
ReviewLookupRaises(call, i) == call.prs[i].reviews = None

\* a 'reopened' event is met on the timeline of the i-th request
OpenReopenSeen(call, i) ==
    \E k \in 1 .. Len(call.prs[i].events.items) :
        call.prs[i].events.items[k] = "reopened"

\* the event lookup of the i-th request raises: the loop over the timeline
\* has not left it at a 'reopened' event before
EventLookupRaises(call, i) ==
    call.prs[i].events.fails /\ ~OpenReopenSeen(call, i)

\* the requests of the call, each with a timeline that is empty and sound
WithoutEvents(call) ==
    [i \in 1 .. Len(call.prs) |-> [call.prs[i] EXCEPT !.events = NoEvents]]

\* the outcome an API-mode call has
FailureOutcome ==
    (last.op = "get_repo_stats" /\ ~last.cfg.dbonly) =>
        LET n == Len(last.prs)
        IN  IF \E i \in 1 .. n : ReviewLookupRaises(last, i)
            THEN /\ last.raised = "Exception"
                 /\ last.result = None
                 /\ last.saves = <<>>
            ELSE /\ last.raised = "none"
                 /\ last.result[1].reopened_prs =
                       PyInt(Cardinality({i \in 1 .. n :
                                            /\ ~EventLookupRaises(last, i)
                                            /\ OpenReopenSeen(last, i)}))
                 /\ LET sound == get_repo_stats(last.repo_name, last.cfg, {},
                                                WithoutEvents(last), last.at)
                    IN  last.result[1] =
                           [sound.result[1] EXCEPT
                               !.reopened_prs = last.result[1].reopened_prs]
                 /\ last.saves = << <<last.repo_name, last.result[1], None>> >>
                 /\ RowSavedFor(last.repo_name, last.result[1], last.at)

\* C27: when get_repo_stats in API mode fails on a request with an error
\* that is not a failed timeline-event lookup (the review lookup raises), the
\* error reaches the caller, save_stats is not called and the store is left
\* as it was; a failed timeline-event lookup alone is absorbed: the request
\* adds 0 to reopened_prs and every other field is computed as usual.
C27_OnlyEventFailuresAbsorbed ==
    /\ []FailureOutcome
    /\ [][(last'.op = "get_repo_stats" /\ last'.raised = "Exception") =>
             (db' = db /\ saved' = saved)]_vars

\* a call that raised and left the row of the other repository in place,
\* on the second request of a list whose first request had a failed event lookup
C27_Witness ==
    /\ last.op = "get_repo_stats"
    /\ last.raised = "Exception"
    /\ db # {}
    /\ Len(last.prs) >= 2
    /\ ~ReviewLookupRaises(last, 1) /\ EventLookupRaises(last, 1)
    /\ ReviewLookupRaises(last, 2)

\* a call that returned although the event lookup of a request failed
C27_WitnessAbsorbed ==
    /\ Returned(last)
    /\ \E i \in 1 .. Len(last.prs) : EventLookupRaises(last, i)
    /\ \E i \in 1 .. Len(last.prs) : OpenReopenSeen(last, i)
    /\ last.result[1].reopened_prs = PyInt(1)

----------------------------------------------------------------------------
(* Claims about store-only mode after an API-mode run (SpecRun) *)

\* a get_repo_stats call in store-only mode that returned
ReturnedFromStore(call) ==
    /\ call.op = "get_repo_stats"
    /\ call.cfg.dbonly
    /\ call.raised = "none"

\* the snapshot the API-mode call for the repository of the call returned
\* and saved on the day of the call
SavedToday(call) == saved[<<call.repo_name, strftime(call.at)>>]

\* C29: a get_repo_stats call in store-only mode made after an API-mode
\* call for the same repository on the same day returns the values of the
\* API-mode call in the nine persisted fields, reopened_prs 0 and an empty
\* detail list: the store neither saves nor returns reopened_prs.
C29_StoreOnlyAfterRun ==
    /\ \A r \in db : "reopened_prs" \notin DOMAIN r
    /\ (last.op = "get_repo_stats" /\ last.cfg.dbonly) =>
          IF <<last.repo_name, strftime(last.at)>> \in DOMAIN saved
          THEN /\ last.raised = "none"
               /\ \A f \in NumericFields :
                     PyEq(last.result[1][f], SavedToday(last)[f])
               /\ last.result[1].oldest_pr_title = SavedToday(last).oldest_pr_title
               /\ SavedToday(last) =
                     get_repo_stats(last.repo_name,
                                    [last.cfg EXCEPT !.dbonly = FALSE], {},
                                    last.prs, last.at).result[1]
               /\ last.result[1].reopened_prs = PyInt(0)
               /\ last.result[1].zero_comment_prs = Some(<<>>)
          ELSE last.raised = "ValueError"

\* a store-only call after an API-mode call that counted a reopened request,
\* listed requests without comments and returned an average that is not whole
C29_Witness ==
    /\ ReturnedFromStore(last)
    /\ SavedToday(last).reopened_prs.n >= 1
    /\ SavedToday(last).zero_comment_prs # Some(<<>>)
    /\ SavedToday(last).avg_age_days.d > 1
    /\ PyEq(last.result[1].avg_age_days, SavedToday(last).avg_age_days)

----------------------------------------------------------------------------
(* Claims about the order of generate_report (Spec) *)

\* the first k repositories of the configuration have been processed, in
\* order: report holds their snapshots and, in API mode, saves the
\* save_stats calls made for them, whose rows are in the table
ProcessedInOrder(report, saves, k, api) ==
    /\ Len(report) = k
    /\ \A j \in 1 .. k : report[j][1] = ConfigRepos[j]
    /\ IF api
       THEN /\ Len(saves) = k
            /\ \A j \in 1 .. k :
                  /\ saves[j] = <<ConfigRepos[j], report[j][2], None>>
                  /\ RowSavedFor(ConfigRepos[j], report[j][2], now)
       ELSE saves = <<>>

\* the snapshots of the repositories before the next one are saved; a
\* generate_report that raised returned no report and left the snapshots of
\* the repositories before the failed one, and only those, written
ReportProgress ==
    /\ gr.active =>
          /\ gr.i \in 1 .. Len(ConfigRepos) + 1
          /\ ProcessedInOrder(gr.report, gr.saves, gr.i - 1, ~cfg.dbonly)
    /\ last.op = "generate_report" =>
          IF last.raised = "none"
          THEN /\ last.result # None
               /\ last.failed = 0
               /\ ProcessedInOrder(last.result[1], last.saves, Len(ConfigRepos),
                                   ~last.cfg.dbonly)
          ELSE /\ last.result = None
               /\ last.failed \in 1 .. Len(ConfigRepos)
               /\ Len(last.saves) = IF last.cfg.dbonly THEN 0 ELSE last.failed - 1
               /\ \A j \in 1 .. Len(last.saves) :
                     /\ last.saves[j][1] = ConfigRepos[j]
                     /\ RowSavedFor(ConfigRepos[j], last.saves[j][2], now)

\* one iteration of generate_report writes the row of its repository only,
\* and nothing when the processing of the repository raises
ReportStep ==
    (gr.active /\ gr.i <= Len(ConfigRepos)) =>
        /\ \A r \in db : r.repo_name # ConfigRepos[gr.i] => r \in db'
        /\ \A r \in db' : r.repo_name # ConfigRepos[gr.i] => r \in db
        /\ \/ /\ gr'.active
              /\ gr'.i = gr.i + 1
              /\ last'.op = "get_repo_stats"
              /\ last'.repo_name = ConfigRepos[gr.i]
           \/ /\ ~gr'.active
              /\ last'.op = "generate_report"
              /\ last'.raised # "none"
              /\ last'.failed = gr.i
              /\ db' = db
              /\ saved' = saved

\* C28: generate_report processes the configured repositories one at a
\* time in the order of the configuration, and the snapshot of a repository
\* is saved before the processing of the next one starts; when the
\* processing of repository k raises, the snapshots of the repositories
\* before k stay in the table, nothing is written for k or a later
\* repository, and no report is returned.
C28_ReportInOrder == []ReportProgress /\ [][ReportStep]_vars

\* a report in API mode that raised on the second repository: the row of
\* the first repository is in the table, none of the second
C28_Witness ==
    /\ last.op = "generate_report"
    /\ ~last.cfg.dbonly
    /\ last.raised = "Exception"
    /\ last.failed = 2
    /\ Len(last.saves) = 1
    /\ github[ConfigRepos[1]] # <<>>
    /\ \E r \in db : r.repo_name = ConfigRepos[1]
    /\ \A r \in db : r.repo_name # ConfigRepos[2]

----------------------------------------------------------------------------
(* Claims about the comparison against the earliest snapshot (SpecMain) *)

\* the lines of a repository printed by a main that was given --compare
ComparedRepos(call) ==
    IF call.op = "main" /\ call.cfg.compare_days # None
    THEN 1 .. Len(call.printed) ELSE {}

\* the day (now minus compare_days) falls on
TargetDay(call) ==
    FloorDays(call.at) - call.cfg.compare_days[1]

\* no row of the repository is dated before the target day: the lookup
\* can only fall back to the earliest snapshot
NothingBefore(call, repo_name) ==
    \A d \in DatesOf(repo_name) : d >= TargetDay(call)

\* the only row of the repository is the one of the day of the call
OnlyTodaysRow(call, repo_name) ==
    DatesOf(repo_name) = {FloorDays(call.at)}

\* the seven compared metrics the store persists
PersistedMetrics ==
    {"total_prs", "avg_age_days", "avg_age_days_excluding_oldest",
     "avg_comments", "avg_comments_with_comments", "prs_with_zero_comments",
     "approved_prs"}

Unchanged(line) == line.colour = "" /\ line.previous = None

\* the baseline of the printed repository is the snapshot saved today
BaselineIsTodays(call, p) ==
    /\ p.comparison_stats # None
    /\ p.compared # None
    /\ p.comparison_stats[1].date = FloorDays(call.at)
    /\ \A f \in NumericFields : PyEq(p.comparison_stats[1][f], p.stats[f])

\* C30: whenever _get_comparison_stats falls back to the earliest snapshot,
\* the snapshot it returns is dated on or after the target day (now minus
\* compare_days); so when the only stored row of a repository is the one
\* today's run has just saved, the baseline of the comparison is that same
\* snapshot and every metric compares as unchanged.
C30_FallbackComparesUnchanged ==
    \A i \in ComparedRepos(last) :
        LET p == last.printed[i]
        IN  /\ (NothingBefore(last, p.repo_name) /\ p.comparison_stats # None) =>
                  p.comparison_stats[1].date >= TargetDay(last)
            /\ OnlyTodaysRow(last, p.repo_name) =>
                  /\ BaselineIsTodays(last, p)
                  /\ \A f \in PersistedMetrics \cup {"reopened_prs"} :
                        Unchanged(p.compared[1][f])

\* the same for a comparison over one day or more and the metrics the store
\* persists, where the code agrees; the reopened requests are compared with 0
C30_PersistedMetricsUnchanged ==
    \A i \in ComparedRepos(last) :
        LET p == last.printed[i]
        IN  last.cfg.compare_days[1] >= 1 =>
              /\ (NothingBefore(last, p.repo_name) /\ p.comparison_stats # None) =>
                    p.comparison_stats[1].date >= TargetDay(last)
              /\ OnlyTodaysRow(last, p.repo_name) =>
                    /\ BaselineIsTodays(last, p)
                    /\ \A f \in PersistedMetrics : Unchanged(p.compared[1][f])
                    /\ Unchanged(p.compared[1].reopened_prs)
                          <=> p.stats.reopened_prs.n = 0
                    /\ p.stats.reopened_prs.n > 0 =>
                          /\ p.compared[1].reopened_prs.colour = Colors.RED
                          /\ p.compared[1].reopened_prs.previous =
                                Some(Format(0, PyInt(0)))

\* with --compare 0 the lookup returns nothing and no comparison is printed
C30_NoComparisonOverZeroDays ==
    \A i \in ComparedRepos(last) :
        last.cfg.compare_days[1] = 0 =>
            /\ last.printed[i].comparison_stats = None
            /\ last.printed[i].compared = None

\* a comparison over one day of a repository whose only row is today's: the
\* baseline is today's snapshot, yet the reopened requests show as increased
C30_ReopenedShownIncreased ==
    \E i \in ComparedRepos(last) :
        LET p == last.printed[i]
        IN  /\ last.cfg.compare_days[1] >= 1
            /\ OnlyTodaysRow(last, p.repo_name)
            /\ BaselineIsTodays(last, p)
            /\ p.stats.reopened_prs.n > 0
            /\ p.compared[1].reopened_prs.colour = Colors.RED
            /\ p.compared[1].avg_age_days.colour = ""

====
